---- MODULE Spec2Model ----
(***************************************************************************)
(* A model of odr, the OpenVPN DHCP requestor.                             *)
(*                                                                         *)
(*   Spec        the DHCP transactions of one requestor                    *)
(*               (src/odr/dhcprequestor.py): their creation, the inbound   *)
(*               datagrams dispatched by xid, and the timers.              *)
(*   SpecRoutes  parse_classless_static_routes over byte sequences.        *)
(*   SpecAck     the result record handle_dhcp_ack builds from an ACK.     *)
(*                                                                         *)
(* Time is abstract: an armed timer may fire at any moment, which covers   *)
(* every deadline order the jittered timeouts can produce.                 *)
(***************************************************************************)
EXTENDS Integers, Sequences, FiniteSets, TLC

----------------------------------------------------------------------------
(* Bounds of the model *)

\* Transactions created in one behaviour of Spec.
MaxTxn == 2
\* Length of the byte sequences handed to parse_classless_static_routes.
MaxLen == 10
\* Realms of the configuration SpecRegistry loads requestors for.
MaxRealms == 3
\* Messages a command connection of SpecCmd receives before EOF.
MaxMsgs == 2
\* Client records SpecClients creates.
MaxClients == 2
\* Seconds the clock of SpecClients runs.
MaxNow == 10
MaxPeers == 2
MaxCmds == 3
MaxListed == 1
MaxValue == 3

----------------------------------------------------------------------------
(* Program constants *)

AR_DISCOVER == 1
AR_REQUEST == 2
\* Defaults of DhcpAddressRequest.__init__.
DefaultMaxRetries == 3
DefaultTimeout == 4
\* dhcp_message_type values of _DHCP_TYPE_HANDLERS.
DHCP_OFFER == 2
DHCP_ACK == 5
DHCP_NACK == 6
\* A dhcp_message_type without a handler (DHCP_DISCOVER).
DHCP_OTHER == 1
\* The DHCP server port the responses must come from.
ServerPort == 67
\* The +-5 s jitter of the derived renewal and rebinding times.
LeaseJitter == 5

----------------------------------------------------------------------------
(* Values *)

\* Values random.randint(0, 2**32 - 1) may return for an xid.
Xids == {1, 2}
\* IPv4 addresses: two DHCP servers and a host that is no server.
ServerA == "A"
ServerB == "B"
Stranger == "X"
\* The address a server offers, and the one a refresh asks for.
OfferedIp == "10.1.2.3"
LeasedIp == "10.1.2.9"
\* Server lists the realm of the requestor may configure.
ServerLists == {<<ServerA>>, <<ServerA, ServerB>>}
\* int(time.time()) at the creation of a transaction.
StartTime == 1000

Range(s) == {s[i] : i \in 1..Len(s)}
Take(s, n) == SubSeq(s, 1, IF n < Len(s) THEN n ELSE Len(s))
Drop(s, n) == SubSeq(s, (IF n < Len(s) THEN n ELSE Len(s)) + 1, Len(s))
RECURSIVE Pow2(_)
Pow2(n) == IF n <= 0 THEN 1 ELSE 2 * Pow2(n - 1)

----------------------------------------------------------------------------
(* parse_classless_static_routes *)

\* bytes(...).ljust(4, b"\x00")
ljust4(s) == s \o SubSeq(<<0, 0, 0, 0>>, 1, 4 - Len(s))
\* The number of prefix bits that fall into octet i (1..4) of an address.
PrefixBits(width, i) ==
    LET k == width - 8 * (i - 1)
    IN  IF k < 0 THEN 0 ELSE IF k > 8 THEN 8 ELSE k
\* IPv4Network((addr, width)) is strict: it raises ValueError when the
\* address has bits set beyond the prefix.
HasHostBits(addr, width) ==
    \E i \in 1..4 : addr[i] % Pow2(8 - PrefixBits(width, i)) # 0
\* str(network.netmask)
Netmask(width) == [i \in 1..4 |-> 256 - Pow2(8 - PrefixBits(width, i))]

\* The return value of parse_classless_static_routes: the list of routes
\* (ret "list"), None (ret "None": malformed) or an exception (ret "Raise").
Malformed == [ret |-> "None", routes |-> << >>]
Raised == [ret |-> "Raise", routes |-> << >>]

RECURSIVE parse_loop(_, _)
parse_loop(remaining, routes) ==
    IF Len(remaining) >= 5
    THEN LET mask_width == Head(remaining)
             rem1 == Tail(remaining)
             significant_octets == ((mask_width - 1) \div 8) + 1
         IN  IF significant_octets > 4
             THEN Malformed
             ELSE LET network_addr == ljust4(Take(rem1, significant_octets))
                      rem2 == Drop(rem1, significant_octets)
                      gateway == Take(rem2, 4)
                      rem3 == Drop(rem2, 4)
                  IN  IF HasHostBits(network_addr, mask_width)
                      THEN Raised
                      ELSE IF Len(gateway) # 4
                      THEN Malformed
                      ELSE parse_loop(rem3,
                               Append(routes, << network_addr,
                                                 Netmask(mask_width),
                                                 gateway >>))
    ELSE IF Len(remaining) > 0 THEN Malformed
    ELSE [ret |-> "list", routes |-> routes]

parse_classless_static_routes(data) == parse_loop(data, << >>)

----------------------------------------------------------------------------
(* The result record of handle_dhcp_ack *)

\* An option or a dictionary key that may be missing: << >> when it is,
\* <<v>> when it holds v.
Absent == << >>
Some(v) == <<v>>

\* An ACK's options: domain is "ascii" or "nonascii" (the bytes of
\* domain_name), router the option's value as a list of 4-byte addresses,
\* csr the bytes of classless_static_route, the times numbers.
DefaultNet == <<0, 0, 0, 0>>

\* Lines 327-343. A missing ip_address_lease_time reads as the empty value,
\* which int.from_bytes turns into 0; int(x * 0.5) and int(x * 0.875) are
\* exact floors for 32-bit x.
lease_delta(body) == IF body.lease = Absent THEN 0 ELSE body.lease[1]
renewal_delta(body, j) ==
    IF body.renewal # Absent THEN body.renewal[1]
    ELSE ((lease_delta(body) * 5) \div 10) + j
rebinding_delta(body, j) ==
    IF body.rebinding # Absent THEN body.rebinding[1]
    ELSE ((lease_delta(body) * 875) \div 1000) + j

\* Lines 294-299: result['gateway'] from option router, set when the
\* option's value is 4 bytes long.
router_gateway(body) ==
    IF body.router # Absent /\ Len(body.router[1]) = 1
    THEN Some(body.router[1][1]) ELSE Absent

IsDefault(route) == route[1] = DefaultNet /\ route[2] = DefaultNet
\* Lines 320-324: every default route of the list overwrites the gateway.
RECURSIVE default_gateway(_, _)
default_gateway(routes, gw) ==
    IF routes = << >> THEN gw
    ELSE default_gateway(Tail(routes),
             IF IsDefault(Head(routes)) THEN Some(Head(routes)[3]) ELSE gw)
non_default(routes) == SelectSeq(routes, LAMBDA r : ~IsDefault(r))

\* Lines 286-343: the dictionary handed to the success handler, or Raise
\* when the parsing raises.
AckRaised == [raised |-> TRUE]
AckResult(body, start_time, j1, j2) ==
    LET parsed == IF body.csr = Absent THEN Malformed
                  ELSE parse_classless_static_routes(body.csr[1])
    IN  IF body.domain = "nonascii" \/ parsed.ret = "Raise"
        THEN AckRaised
        ELSE [ raised |-> FALSE,
               domain |-> body.domain,
               ip_address |-> body.yiaddr,
               subnet_mask |-> body.subnet_mask,
               gateway |-> IF parsed.ret = "list"
                           THEN default_gateway(parsed.routes, Absent)
                           ELSE router_gateway(body),
               dns |-> body.dns,
               static_routes |-> IF parsed.ret = "list"
                                 THEN Some(non_default(parsed.routes))
                                 ELSE Absent,
               lease_timeout |-> start_time + lease_delta(body),
               renewal_timeout |-> start_time + renewal_delta(body, j1),
               rebinding_timeout |-> start_time + rebinding_delta(body, j2) ]

\* random.randint(-5, 5) is drawn only where a time is derived.
Jitter(option) == IF option # Absent THEN {0} ELSE (-LeaseJitter)..LeaseJitter

----------------------------------------------------------------------------
(* State *)

VARIABLES
    servers,    \* dhcp_server_ips of the realm the transactions are made for
    txn,        \* the DhcpAddressRequest objects, in order of creation
    requests,   \* DhcpAddressRequestor._requests: xid -> index into txn
    timers,     \* the armed TimeoutObjects: <<transaction, object number>>
    hist,       \* per transaction: the callbacks called so far
    ev,         \* the last event handled; for a timer, the sends before it
    data,       \* SpecRoutes: the bytes handed to the route parser
    parsed,     \* SpecRoutes: what the parser returned for them
    ack,        \* SpecAck: the options of an ACK and the jitter drawn
    result,     \* SpecAck: the result built from them
    reg,        \* SpecRegistry: the requestor registry and its loading
    cmd,        \* SpecCmd: a command connection, its files and its replies
    cl,         \* SpecClients: the client records and their manager
    syn,        \* SpecSync: the periodic client-list sync
    lis,        \* SpecListener: the command socket's listener and its peers
    chan,       \* SpecChannel: the management channel of one concentrator
    esc         \* SpecEscape: a configuration value and its escaped form

vars == <<servers, txn, requests, timers, hist, ev, data, parsed, ack, result,
          reg, cmd, cl, syn, lis, chan, esc>>
dhcpVars == <<servers, txn, requests, timers, hist, ev>>
routeVars == <<data, parsed>>
ackVars == <<ack, result>>
\* The variables of the daemon's other components.
extVars == <<reg, cmd, cl, syn, lis, chan, esc>>

\* The other components before anything happened to them.
NoReg == [realms |-> << >>, bindable |-> {}, by_key |-> << >>,
          sloop |-> << >>, ret |-> "idle", last |-> "init",
          before |-> << >>, added |-> [id |-> 0, key |-> <<"none", "none">>]]
\* The descriptors passed with the messages of one connection: message n
\* carries the files 2n-1 and 2n.
FileIds == 1..(2 * MaxMsgs)
\* OvpnCmdConn.__init__: nothing retained, nothing written; the ghost
\* fields record the files, the client records and the last event.
NoRes == [ip_address |-> FALSE, subnet_mask |-> FALSE,
          rebinding_timeout |-> FALSE, lease_timeout |-> FALSE]
NoLast == [op |-> "init", replies |-> << >>, steps |-> << >>, res |-> NoRes,
           username |-> << >>, server |-> << >>, realm |-> << >>,
           ret_f |-> << >>, config_f |-> << >>, wrote_ret |-> FALSE,
           pending |-> 0, clients |-> {}]
NoCmd == [state |-> "idle", ret_f |-> << >>, config_f |-> << >>,
          wrote_ret |-> FALSE, full_username |-> << >>, server |-> << >>,
          realm_data |-> << >>,
          status |-> [f \in FileIds |-> << >>],
          config |-> [f \in FileIds |-> FALSE],
          pending |-> 0, okreqs |-> {}, clients |-> {}, msgs |-> 0,
          last |-> NoLast]
\* OvpnClientManager.__init__: no client, both indices empty.
ClUsers == {"alice@r1", "a@b@c", "eve@nowhere"}
ClServers == {"srv1", "srv2"}
NoRec == [username |-> "none", server |-> "none", leased_ip |-> << >>,
          rebinding |-> << >>, lease |-> << >>, killed |-> FALSE,
          killed_by |-> "none"]
NoCl == [recs |-> << >>,
         by_username |-> [u \in ClUsers |-> 0],
         by_server |-> [sv \in ClServers |-> [u \in ClUsers |-> 0]],
         timers |-> {}, refreshes |-> {}, raised |-> FALSE, now |-> 0,
         last |-> [op |-> "init", id |-> 0, zombie |-> FALSE,
                   effects |-> << >>, before |-> NoRec,
                   req |-> [state |-> 0,
                            packet |-> [type |-> "DISCOVER", xid |-> 0,
                                        server_identifier |-> << >>,
                                        request_ip_address |-> << >>]],
                   arg |-> [sv |-> "none", entries |-> {},
                            res |-> << >>, start |-> "none"]]]
\* OvpnClientManager.__init__ before its first sync timer is armed; the
\* management socket of each concentrator.
NoSyn == [timers |-> {}, socket |-> [sv \in ClServers |-> "none"],
          polled |-> {},
          last |-> [op |-> "idle", raised |-> FALSE, lost |-> {}]]
\* CommandConnectionListener.__init__: no peer yet, no connection object
\* among the socket loop's handlers.
NoLis == [uids |-> {}, gids |-> {}, peers |-> << >>, handlers |-> {},
          last |-> [op |-> "idle", peer |-> 0]]
\* OvpnServer.__init__ before connect_to_mgmt: no socket, no pending
\* command.
NoChan == [socket |-> "none", queue |-> << >>, wire |-> << >>,
           lines |-> << >>, sent |-> << >>, done |-> << >>,
           issued |-> << >>,
           last |-> [op |-> "idle", raised |-> FALSE, sent |-> FALSE,
                     pending |-> 0]]
\* No value handed to config_escape yet.
NoEsc == [v |-> << >>, out |-> << >>]
ExtIdle == /\ reg = NoReg /\ cmd = NoCmd /\ cl = NoCl
           /\ syn = NoSyn /\ lis = NoLis
           /\ chan = NoChan /\ esc = NoEsc

\* The part of the state the handlers of a transaction work on.
World == [txn |-> txn, requests |-> requests, timers |-> timers, hist |-> hist]

----------------------------------------------------------------------------
(* TimeoutManager (odr/timeoutmgr.py) *)

add_timeout_object(w, t, g) == [w EXCEPT !.timers = @ \cup {<<t, g>>}]
\* Cancelling is idempotent.
del_timeout_object(w, t, g) == [w EXCEPT !.timers = @ \ {<<t, g>>}]
Armed(w, t) == {tm \in w.timers : tm[1] = t}

----------------------------------------------------------------------------
(* DhcpAddressRequestor: the xid map *)

add_request(w, t) ==
    LET xid == w.txn[t].xid
    IN  [w EXCEPT !.requests =
            [x \in DOMAIN @ \cup {xid} |-> IF x = xid THEN t ELSE @[x]]]

\* del self._requests[request.xid]: a KeyError when the xid is no key.
del_request_raises(w, t) == w.txn[t].xid \notin DOMAIN w.requests
del_request(w, t) ==
    [w EXCEPT !.requests = [x \in DOMAIN @ \ {w.txn[t].xid} |-> @[x]]]

\* The transactions the map holds.
Mapped(reqs) == {reqs[x] : x \in DOMAIN reqs}

----------------------------------------------------------------------------
(* DhcpAddressRequest *)

\* The callbacks the owner passed to __init__; the model counts the calls.
success_handler(w, t, res) == [w EXCEPT !.hist[t].succ = @ + 1]
failure_handler(w, t) == [w EXCEPT !.hist[t].fail = @ + 1]

\* TimeoutObject(...): a new object, numbered apart from the armed objects
\* of the transaction and from the one it still refers to.
new_timeout_object(w, t) ==
    CHOOSE g \in 1..(Cardinality(Armed(w, t)) + 2) :
        /\ <<t, g>> \notin w.timers
        /\ w.txn[t].timeout_obj # Some(g)

send_to_server(w, t, packet) ==
    LET r == w.txn[t]
        g == new_timeout_object(w, t)
        w1 == [w EXCEPT !.txn[t].timeout_obj = Some(g)]
        w2 == add_timeout_object(w1, t, g)
    IN  [w2 EXCEPT !.txn[t].log =
            Append(@, [packet |-> packet, timeout |-> r.timeout,
                       to |-> r.server_ips])]

send_packet(w, t, packet) ==
    send_to_server(
        [w EXCEPT !.txn[t].last_packet = Some(packet),
                  !.txn[t].packet_retries = 0,
                  !.txn[t].timeout = w.txn[t].initial_timeout,
                  !.txn[t].log = << >>],
        t, packet)

resend_packet(w, t) ==
    send_to_server(
        [w EXCEPT !.txn[t].packet_retries = @ + 1,
                  !.txn[t].timeout = @ * 2],
        t, w.txn[t].last_packet[1])

\* _valid_source_address without the comparison with _server_ips.
valid_source_address_any_ip(r, packet) ==
    IF packet.src = Absent THEN FALSE
    ELSE packet.src[1][2] = ServerPort

valid_source_address(r, packet) ==
    IF packet.src = Absent THEN FALSE
    ELSE LET ip_address == packet.src[1][1]
             port == packet.src[1][2]
         IN  IF port # ServerPort THEN FALSE
             ELSE IF ip_address \notin Range(r.server_ips) THEN FALSE
             ELSE TRUE

\* _retrieve_server_ip that never narrows the list.
retrieve_server_ip_keep(r, packet) == r.server_ips

\* The new _server_ips; an unparseable server_identifier keeps the list.
retrieve_server_ip(r, packet) ==
    IF Len(r.server_ips) > 1
    THEN IF packet.server_identifier # Absent
         THEN << packet.server_identifier[1] >>
         ELSE r.server_ips
    ELSE r.server_ips

generate_discover(r) ==
    [type |-> "DISCOVER", xid |-> r.xid, server_identifier |-> Absent,
     request_ip_address |-> Absent]
\* A _generate_request that copies nothing from the OFFER.
generate_request_unselected(r, offer_packet) ==
    [type |-> "REQUEST", xid |-> r.xid, server_identifier |-> Absent,
     request_ip_address |-> Some(r.client_ip)]

\* DhcpAddressInitialRequest._generate_request
generate_request(r, offer_packet) ==
    [type |-> "REQUEST", xid |-> r.xid,
     server_identifier |-> offer_packet.sid,
     request_ip_address |-> Some(offer_packet.yiaddr)]
generate_refresh_request(r) ==
    [type |-> "REQUEST", xid |-> r.xid, server_identifier |-> Absent,
     request_ip_address |-> Some(r.client_ip)]

\* A handler that leaves the pending TimeoutObject armed.
cancel_timeout_forgotten(w, t) == w

\* if self._timeout_obj: self._timeout_mgr.del_timeout_object(...)
cancel_timeout(w, t) ==
    IF w.txn[t].timeout_obj # Absent
    THEN del_timeout_object(w, t, w.txn[t].timeout_obj[1])
    ELSE w

handle_dhcp_offer(w, t, offer_packet) ==
    LET r == w.txn[t]
    IN  IF r.state # AR_DISCOVER THEN w
        ELSE IF ~valid_source_address(r, offer_packet) THEN w
        ELSE LET w1 == cancel_timeout(w, t)
                 req_packet == generate_request(r, offer_packet)
                 w2 == [w1 EXCEPT
                          !.txn[t].server_ips = retrieve_server_ip(r, req_packet),
                          !.txn[t].state = AR_REQUEST,
                          !.hist[t].offers = @ + 1]
             IN  send_packet(w2, t, req_packet)

\* An exception of the parsing leaves handle_socket after the timer was
\* cancelled and the request removed.
handle_dhcp_ack(w, t, packet, j1, j2) ==
    LET r == w.txn[t]
    IN  IF r.state # AR_REQUEST THEN w
        ELSE IF ~valid_source_address(r, packet) THEN w
        ELSE LET w1 == del_request(cancel_timeout(w, t), t)
                 res == AckResult(packet.body, r.start_time, j1, j2)
             IN  IF res.raised THEN w1 ELSE success_handler(w1, t, res)

\* A handle_dhcp_nack that only calls the failure handler.
handle_dhcp_nack_armed(w, t, packet) ==
    LET r == w.txn[t]
    IN  IF r.state # AR_REQUEST THEN w
        ELSE IF ~valid_source_address(r, packet) THEN w
        ELSE failure_handler(w, t)

handle_dhcp_nack(w, t, packet) ==
    LET r == w.txn[t]
    IN  IF r.state # AR_REQUEST THEN w
        ELSE IF ~valid_source_address(r, packet) THEN w
        ELSE failure_handler(del_request(cancel_timeout(w, t), t), t)

\* Called by the timeout manager, which has removed the object that fired.
handle_timeout(w, t) ==
    LET r == w.txn[t]
    IN  IF r.packet_retries >= r.max_retries
        THEN IF del_request_raises(w, t) THEN w
             ELSE failure_handler(del_request(w, t), t)
        ELSE IF r.last_packet # Absent THEN resend_packet(w, t)
        ELSE w

----------------------------------------------------------------------------
(* DhcpAddressRequestor.handle_socket *)

HandledTypes == {DHCP_OFFER, DHCP_ACK, DHCP_NACK}

\* A dispatch that takes every dhcp_message_type.
dispatch_any_type(reqs, packet) ==
    IF ~packet.is_dhcp \/ ~packet.has_type THEN Absent
    ELSE IF packet.xid \notin DOMAIN reqs THEN Absent
    ELSE Some(reqs[packet.xid])

\* The transaction a datagram is dispatched to: << >> when it is ignored.
dispatch(reqs, packet) ==
    IF ~packet.is_dhcp \/ ~packet.has_type THEN Absent
    ELSE IF packet.msg_type \notin HandledTypes THEN Absent
    ELSE IF packet.xid \notin DOMAIN reqs THEN Absent
    ELSE Some(reqs[packet.xid])

handle_socket(w, packet, j1, j2) ==
    LET d == dispatch(w.requests, packet)
    IN  IF d = Absent THEN w
        ELSE IF packet.msg_type = DHCP_OFFER
             THEN handle_dhcp_offer(w, d[1], packet)
        ELSE IF packet.msg_type = DHCP_ACK
             THEN handle_dhcp_ack(w, d[1], packet, j1, j2)
        ELSE handle_dhcp_nack(w, d[1], packet)

----------------------------------------------------------------------------
(* Inbound datagrams of Spec *)

Ip(a, b, c, d) == <<a, b, c, d>>
NoBody ==
    [domain |-> "ascii", yiaddr |-> Absent, subnet_mask |-> Absent,
     router |-> Absent, dns |-> << >>, csr |-> Absent, lease |-> Absent,
     renewal |-> Absent, rebinding |-> Absent]
GoodBody ==
    [domain |-> "ascii", yiaddr |-> Some(Ip(10, 1, 2, 3)),
     subnet_mask |-> Some(Ip(255, 255, 255, 0)),
     router |-> Some(<<Ip(10, 1, 2, 1)>>), dns |-> <<Ip(1, 1, 1, 1)>>,
     csr |-> Absent, lease |-> Some(9000), renewal |-> Some(300),
     rebinding |-> Some(7000)]
\* domain_name holds a byte that is not ASCII: decode("ascii") raises.
BadDomainBody == [GoodBody EXCEPT !.domain = "nonascii"]
\* 0.9.0.0/9 has host bits set: IPv4Network raises.
BadRouteBody == [GoodBody EXCEPT !.csr = Some(<<9, 0, 9, 10, 1, 2, 1>>)]
SpecBodies == {GoodBody, BadDomainBody, BadRouteBody}

Sources == { <<ServerA, ServerPort>>, <<ServerB, ServerPort>>,
             <<Stranger, ServerPort>>, <<ServerA, 68>> }

Packet(is_dhcp, has_type, msg_type, xid, src, sid, body) ==
    [is_dhcp |-> is_dhcp, has_type |-> has_type, msg_type |-> msg_type,
     xid |-> xid, src |-> Some(src), sid |-> sid, yiaddr |-> OfferedIp,
     body |-> body]

Offers ==
    { Packet(TRUE, TRUE, DHCP_OFFER, x, src, sid, NoBody) :
        x \in Xids, src \in Sources,
        sid \in {Absent, Some(ServerA), Some(ServerB)} }
Acks ==
    { Packet(TRUE, TRUE, DHCP_ACK, x, src, Absent, b) :
        x \in Xids, src \in Sources, b \in SpecBodies }
Nacks ==
    { Packet(TRUE, TRUE, DHCP_NACK, x, src, Absent, NoBody) :
        x \in Xids, src \in Sources }
\* Not DHCP, without dhcp_message_type, of a type without a handler.
Ignored ==
    { Packet(d[1], d[2], d[3], x, <<ServerA, ServerPort>>, Absent, NoBody) :
        x \in Xids,
        d \in { <<FALSE, TRUE, DHCP_ACK>>, <<TRUE, FALSE, 0>>,
                <<TRUE, TRUE, DHCP_OTHER>> } }
Packets == Offers \cup Acks \cup Nacks \cup Ignored

\* The jitter pairs handle_dhcp_ack may draw for a datagram.
Jitters(packet) ==
    IF packet \in Acks
    THEN Jitter(packet.body.renewal) \X Jitter(packet.body.rebinding)
    ELSE {<<0, 0>>}

\* Whether a handler called by handle_socket raises: the parsing of an
\* accepted ACK.
handle_socket_raised(w, packet, j1, j2) ==
    LET d == dispatch(w.requests, packet)
    IN  IF d = Absent THEN FALSE
        ELSE /\ packet.msg_type = DHCP_ACK
             /\ w.txn[d[1]].state = AR_REQUEST
             /\ valid_source_address(w.txn[d[1]], packet)
             /\ AckResult(packet.body, w.txn[d[1]].start_time, j1, j2).raised

\* A handle_socket without its try statement.
exception_escapes_uncaught(raised) == raised

\* try: ... except Exception: log.exception(...) around the whole of
\* handle_socket: no exception of the handling leaves it.
exception_escapes(raised) == FALSE

\* SocketLoop._handle_ready_input_sockets: a handler whose handle_socket
\* raises is removed; whether the handler stays.
handle_ready_input_socket(escaped) == ~escaped

----------------------------------------------------------------------------
(* Actions of Spec *)

\* The last event: its kind, the transaction of a timer, the packets it had
\* sent, whether a handler raised in handle_socket now or before, whether
\* the requestor is among the socket loop's handlers, and the
\* server_identifier and yiaddr of an OFFER that was accepted.
NoEv == [op |-> "init", t |-> 0, log |-> << >>, raised |-> FALSE,
         caught |-> FALSE, registered |-> TRUE, offer |-> << >>]

NewHist == [succ |-> 0, fail |-> 0, late |-> FALSE, offers |-> 0]

NewRequest(kind, xid) ==
    [kind |-> kind, xid |-> xid,
     state |-> IF kind = "initial" THEN AR_DISCOVER ELSE AR_REQUEST,
     server_ips |-> servers, max_retries |-> DefaultMaxRetries,
     initial_timeout |-> DefaultTimeout, start_time |-> StartTime,
     timeout |-> DefaultTimeout, timeout_obj |-> Absent,
     last_packet |-> Absent, packet_retries |-> 0, client_ip |-> LeasedIp,
     log |-> << >>]

\* A DhcpAddressRequest that was destroyed (__del__): neither the xid map
\* nor an armed TimeoutObject refers to it.
Destroyed ==
    [kind |-> "destroyed", xid |-> 0, state |-> 0, server_ips |-> << >>,
     max_retries |-> 0, initial_timeout |-> 0, start_time |-> 0,
     timeout |-> 0, timeout_obj |-> Absent, last_packet |-> Absent,
     packet_retries |-> 0, client_ip |-> LeasedIp, log |-> << >>]
Referenced(w, t) == t \in Mapped(w.requests) \/ Armed(w, t) # {}
collect(w) ==
    [w EXCEPT !.txn = [t \in DOMAIN @ |->
                          IF Referenced(w, t) THEN @[t] ELSE Destroyed]]

Commit(w) ==
    /\ txn' = collect(w).txn
    /\ requests' = w.requests
    /\ timers' = w.timers
    /\ hist' = w.hist

\* DhcpAddressInitialRequest.__init__ / DhcpAddressRefreshRequest.__init__,
\* then the add_request of start_dhcp_address_request /
\* start_dhcp_refresh_request.
construct(w, kind, xid) ==
    LET t == Len(w.txn) + 1
        r == NewRequest(kind, xid)
        w0 == [w EXCEPT !.txn = Append(@, r), !.hist = Append(@, NewHist)]
        w1 == add_request(w0, t)
        w2 == send_packet(w1, t, IF kind = "initial" THEN generate_discover(r)
                                 ELSE generate_refresh_request(r))
    IN  add_request(w2, t)

StartInitial ==
    \E xid \in Xids :
        /\ Len(txn) < MaxTxn
        /\ Commit(construct(World, "initial", xid))
        /\ ev' = [ev EXCEPT !.op = "start", !.t = Len(txn) + 1,
                            !.log = << >>, !.raised = FALSE,
                            !.offer = Absent]
        /\ UNCHANGED <<servers, routeVars, ackVars, extVars>>

StartRefresh ==
    \E xid \in Xids :
        /\ Len(txn) < MaxTxn
        /\ Commit(construct(World, "refresh", xid))
        /\ ev' = [ev EXCEPT !.op = "start", !.t = Len(txn) + 1,
                            !.log = << >>, !.raised = FALSE,
                            !.offer = Absent]
        /\ UNCHANGED <<servers, routeVars, ackVars, extVars>>

\* What became of a datagram: "ignored" by handle_socket, "dropped" by the
\* handler of the transaction it was dispatched to, or "accepted".
Fate(w, packet) ==
    LET d == dispatch(w.requests, packet)
    IN  IF d = Absent THEN "ignored"
        ELSE LET r == w.txn[d[1]]
             IN  IF /\ valid_source_address(r, packet)
                    /\ r.state = (IF packet.msg_type = DHCP_OFFER
                                  THEN AR_DISCOVER ELSE AR_REQUEST)
                 THEN "accepted" ELSE "dropped"

\* A datagram arrives on the requestor's socket, the requestor being among
\* the socket loop's handlers.
Receive ==
    \E packet \in Packets :
        \E j \in Jitters(packet) :
            /\ ev.registered
            /\ Commit(handle_socket(World, packet, j[1], j[2]))
            /\ LET r == handle_socket_raised(World, packet, j[1], j[2])
               IN ev' = [op |-> Fate(World, packet), t |-> 0, log |-> << >>,
                         raised |-> r, caught |-> ev.caught \/ r,
                         registered |-> handle_ready_input_socket(
                                           exception_escapes(r)),
                         offer |-> IF /\ packet.msg_type = DHCP_OFFER
                                      /\ Fate(World, packet) = "accepted"
                                   THEN Some(<<packet.sid, packet.yiaddr>>)
                                   ELSE Absent]
            /\ UNCHANGED <<servers, routeVars, ackVars, extVars>>

\* The timeout manager removes a due object and calls its callback; an
\* exception of the callback is caught at the callback boundary.
Fire ==
    \E tm \in timers :
        LET t == tm[1]
            w0 == [World EXCEPT
                     !.timers = @ \ {tm},
                     !.hist[t].late = @ \/ hist[t].succ + hist[t].fail > 0]
            w1 == handle_timeout(w0, t)
        IN  /\ Commit(w1)
            /\ ev' = [ev EXCEPT !.op = "timer", !.t = t,
                                !.log = txn[t].log, !.raised = FALSE,
                                !.offer = Absent]
            /\ UNCHANGED <<servers, routeVars, ackVars, extVars>>

NoData == << >>
NoParse == [ret |-> "unset", routes |-> << >>]
NoAck == [body |-> NoBody, j1 |-> 0, j2 |-> 0, done |-> FALSE]
NoResult == [raised |-> TRUE]

Init ==
    /\ servers \in ServerLists
    /\ txn = << >>
    /\ requests = << >>
    /\ timers = {}
    /\ hist = << >>
    /\ ev = NoEv
    /\ data = NoData
    /\ parsed = NoParse
    /\ ack = NoAck
    /\ result = NoResult
    /\ ExtIdle

Next == StartInitial \/ StartRefresh \/ Receive \/ Fire

Spec == Init /\ [][Next]_vars

----------------------------------------------------------------------------
(* SpecRoutes: parse_classless_static_routes applied to byte sequences *)

\* Bytes that serve as mask widths (0, 9, 33), network octets and gateways.
RouteBytes == {0, 9, 33}
ByteSeqs == UNION { [1..n -> RouteBytes] : n \in 0..MaxLen }

InitRoutes ==
    /\ data \in ByteSeqs
    /\ parsed = NoParse
    /\ servers = << >>
    /\ txn = << >>
    /\ requests = << >>
    /\ timers = {}
    /\ hist = << >>
    /\ ev = NoEv
    /\ ack = NoAck
    /\ result = NoResult
    /\ ExtIdle

ParseRoutes ==
    /\ parsed = NoParse
    /\ parsed' = parse_classless_static_routes(data)
    /\ UNCHANGED <<data, dhcpVars, ackVars, extVars>>

SpecRoutes == InitRoutes /\ [][ParseRoutes]_vars

----------------------------------------------------------------------------
(* SpecAck: the result handle_dhcp_ack builds from the options of an ACK *)

\* A lease of some three weeks, in seconds.
LongLease == 2000000
Router1 == Ip(10, 1, 2, 1)
Router2 == Ip(10, 1, 2, 2)
\* Values of option classless_static_route: 0.0.0.0/0 via 4.0.0.0 and
\* 10.12.0.0/16 via 5.0.0.0; the second route alone; the same with a
\* trailing byte; two default routes; a route with host bits set; no bytes.
CsrValues ==
    { <<0, 4, 0, 0, 0, 16, 10, 12, 5, 0, 0, 0>>,
      <<16, 10, 12, 5, 0, 0, 0>>,
      <<16, 10, 12, 5, 0, 0, 0, 1>>,
      <<0, 4, 0, 0, 0, 0, 6, 0, 0, 0>>,
      <<9, 0, 9, 10, 1, 2, 1>>,
      << >> }
AckBodies ==
    { [domain |-> dom, yiaddr |-> yi,
       subnet_mask |-> Some(Ip(255, 255, 255, 0)),
       router |-> ro, dns |-> <<Ip(1, 1, 1, 1), Ip(8, 8, 8, 8)>>,
       csr |-> cs, lease |-> le, renewal |-> rn, rebinding |-> rb] :
        dom \in {"ascii", "nonascii"},
        yi \in {Absent, Some(Ip(10, 1, 2, 3))},
        ro \in {Absent, Some(<<Router1>>), Some(<<Router1, Router2>>)},
        cs \in {Absent} \cup {Some(c) : c \in CsrValues},
        le \in {Absent, Some(0), Some(8), Some(9000), Some(LongLease)},
        rn \in {Absent, Some(300), Some(8000)},
        rb \in {Absent, Some(7000), Some(9500)} }

InitAck ==
    /\ ack \in {[body |-> b, j1 |-> 0, j2 |-> 0, done |-> FALSE] :
                  b \in AckBodies}
    /\ result = NoResult
    /\ servers = << >>
    /\ txn = << >>
    /\ requests = << >>
    /\ timers = {}
    /\ hist = << >>
    /\ ev = NoEv
    /\ data = NoData
    /\ parsed = NoParse
    /\ ExtIdle

\* Lines 286-343 of handle_dhcp_ack on an accepted ACK.
ParseAck ==
    \E j1 \in Jitter(ack.body.renewal), j2 \in Jitter(ack.body.rebinding) :
        /\ ~ack.done
        /\ ack' = [ack EXCEPT !.j1 = j1, !.j2 = j2, !.done = TRUE]
        /\ result' = AckResult(ack.body, StartTime, j1, j2)
        /\ UNCHANGED <<dhcpVars, routeVars, extVars>>

SpecAck == InitAck /\ [][ParseAck]_vars

----------------------------------------------------------------------------
(* Properties of the transactions (Spec) *)

Callbacks(t) == hist[t].succ + hist[t].fail
Txns == DOMAIN txn

\* C1: for every transaction at most one of the success and failure
\* callbacks is invoked, at most once; after it no timeout callback of the
\* transaction fires: no TimeoutObject of it is armed and the xid map does
\* not hold it.
C1_CallbackOnce ==
    \A t \in Txns :
        /\ Callbacks(t) <= 1
        /\ ~hist[t].late
        /\ Callbacks(t) = 1 =>
              /\ Armed(World, t) = {}
              /\ t \notin Mapped(requests)

\* One transaction has succeeded and another has failed on its last timer.
C1_Witness ==
    /\ ev.op = "timer"
    /\ hist[ev.t].fail = 1
    /\ \E t \in Txns : hist[t].succ = 1

\* C2: a transaction that has left the requestor's map and has no armed
\* timer left (nothing will call it again) has had its success or its
\* failure handler called.
C2_AlwaysCalledBack ==
    \A t \in Txns :
        (t \notin Mapped(requests) /\ Armed(World, t) = {}) => Callbacks(t) >= 1

\* C3: without an accepted response a transaction sends its packet four
\* times with the base timeouts 4, 8, 16, 32, every send carrying the same
\* packet to the same servers; the fourth timer calls the failure handler
\* and sends nothing, and no earlier timer calls it.
C3_RetryThenFail ==
    /\ \A t \in Txns :
          LET log == txn[t].log
          IN  /\ Len(log) <= DefaultMaxRetries + 1
              /\ \A k \in 1..Len(log) :
                    /\ log[k].timeout = DefaultTimeout * Pow2(k - 1)
                    /\ log[k].packet = log[1].packet
                    /\ log[k].to = log[1].to
    /\ ev.op = "timer" =>
          IF Len(ev.log) = DefaultMaxRetries + 1
          THEN hist[ev.t].fail = 1 /\ Armed(World, ev.t) = {}
          ELSE hist[ev.t].fail = 0 /\ Len(txn[ev.t].log) = Len(ev.log) + 1

\* The conditions under which a handler does not accept a response.
NotAccepted(r, packet) ==
    \/ packet.src[1][2] # 67
    \/ packet.src[1][1] \notin Range(r.server_ips)
    \/ packet.msg_type \in {DHCP_ACK, DHCP_NACK} /\ r.state = AR_DISCOVER
    \/ packet.msg_type = DHCP_OFFER /\ r.state = AR_REQUEST

\* C4: an OFFER, ACK or NACK delivered to a transaction that does not
\* accept it (wrong source port or address, ACK/NACK in AR_DISCOVER, OFFER
\* in AR_REQUEST) changes nothing: the transaction's fields, its armed
\* timer, the packets sent and the callbacks called stay as they were.
C4_DroppedChangesNothing ==
    \A packet \in Offers \cup Acks \cup Nacks :
        (/\ packet.xid \in DOMAIN requests
         /\ NotAccepted(txn[requests[packet.xid]], packet))
        => \A j \in Jitters(packet) :
               handle_socket(World, packet, j[1], j[2]) = World

\* A response was just dropped while a transaction waits in AR_DISCOVER and
\* another in AR_REQUEST.
C4_Witness ==
    /\ ev.op = "dropped"
    /\ \E t \in Txns : txn[t].state = AR_DISCOVER /\ Armed(World, t) # {}
    /\ \E t \in Txns : txn[t].state = AR_REQUEST /\ Armed(World, t) # {}

\* C5: a datagram whose xid is no key of the xid map, or that is not DHCP,
\* has no dhcp_message_type, or has a type other than 2, 5, 6, reaches no
\* handler, changes no map and calls no callback.
C5_UnknownIgnored ==
    \A packet \in Packets :
        (\/ packet.xid \notin DOMAIN requests
         \/ ~packet.is_dhcp
         \/ ~packet.has_type
         \/ packet.msg_type \notin {2, 5, 6})
        => /\ dispatch(requests, packet) = Absent
           /\ \A j \in Jitters(packet) :
                  handle_socket(World, packet, j[1], j[2]) = World

\* A datagram was just ignored while the map held a transaction and missed
\* the other xid.
C5_Witness ==
    /\ ev.op = "ignored"
    /\ DOMAIN requests # {}
    /\ DOMAIN requests # Xids

\* C6: every live transaction (not called back, still waiting on a timer)
\* is the one the xid map holds under its xid: adding a transaction never
\* replaces another live one.
C6_LiveIsMapped ==
    \A t \in Txns :
        (Callbacks(t) = 0 /\ Armed(World, t) # {})
        => /\ txn[t].xid \in DOMAIN requests
           /\ requests[txn[t].xid] = t

\* C7 as stated: a transaction in AR_DISCOVER has accepted no OFFER, and one
\* started by DISCOVER that is in AR_REQUEST has exactly one server.
C7_AlwaysNarrowed ==
    \A t \in Txns :
        /\ txn[t].state = AR_DISCOVER => hist[t].offers = 0
        /\ (txn[t].kind = "initial" /\ txn[t].state = AR_REQUEST)
              => Len(txn[t].server_ips) = 1

\* C7: a transaction in AR_DISCOVER has accepted no OFFER; one started by
\* DISCOVER that is in AR_REQUEST has accepted exactly one, and its server
\* list is the OFFER's server_identifier when several servers are
\* configured and the OFFER carried one, else the configured list.
C7_NarrowedWhenIdentified ==
    \A t \in Txns :
        /\ txn[t].state = AR_DISCOVER => hist[t].offers = 0
        /\ (txn[t].kind = "initial" /\ txn[t].state = AR_REQUEST)
              => LET sid == txn[t].last_packet[1].server_identifier
                 IN  /\ hist[t].offers = 1
                     /\ txn[t].server_ips =
                            IF Len(servers) > 1 /\ sid # Absent
                            THEN <<sid[1]>> ELSE servers
                     /\ (Len(servers) = 1 \/ sid # Absent)
                            => Len(txn[t].server_ips) = 1

\* With two servers configured, an OFFER naming server B was accepted.
C7_Witness ==
    \E t \in Txns :
        /\ txn[t].kind = "initial" /\ txn[t].state = AR_REQUEST
        /\ Len(servers) = 2
        /\ txn[t].server_ips = <<ServerB>>

----------------------------------------------------------------------------
(* Properties of the ACK result (SpecAck) and the route parser (SpecRoutes) *)

\* C8: the times handed to the success handler are ordered,
\* renewal_timeout <= rebinding_timeout <= lease_timeout.
C8_TimesOrdered ==
    (ack.done /\ ~result.raised)
    => /\ result.renewal_timeout <= result.rebinding_timeout
       /\ result.rebinding_timeout <= result.lease_timeout

\* The decoding of RFC 3442 entries: None for a width above 32, a truncated
\* entry or trailing bytes, else one triple per entry of
\* 1 + ceil(width / 8) + 4 bytes.
RECURSIVE Rfc3442Decode(_)
Rfc3442Decode(bytes) ==
    IF bytes = << >> THEN [ret |-> "list", routes |-> << >>]
    ELSE LET width == bytes[1]
             n == (width + 7) \div 8
         IN  IF width > 32 \/ Len(bytes) < 1 + n + 4 THEN Malformed
             ELSE LET rest == Rfc3442Decode(SubSeq(bytes, 6 + n, Len(bytes)))
                      entry == << ljust4(SubSeq(bytes, 2, 1 + n)),
                                  Netmask(width),
                                  SubSeq(bytes, 2 + n, 5 + n) >>
                  IN  IF rest.ret # "list" THEN Malformed
                      ELSE [ret |-> "list", routes |-> <<entry>> \o rest.routes]

\* C9: with a classless_static_route option that decodes cleanly,
\* static_routes is the decoded list without the 0.0.0.0/0 entries and
\* gateway that of a decoded default route (absent when none); with the
\* option absent or malformed, static_routes is absent and gateway is the
\* first address of option router when that is present.
C9_RoutesAndGateway ==
    (ack.done /\ ~result.raised)
    => LET b == ack.body
           dec == IF b.csr = Absent THEN Malformed
                  ELSE Rfc3442Decode(b.csr[1])
           defaults == {i \in 1..Len(dec.routes) : IsDefault(dec.routes[i])}
       IN  IF dec.ret = "list"
           THEN /\ result.static_routes =
                      Some(SelectSeq(dec.routes, LAMBDA r : ~IsDefault(r)))
                /\ IF defaults = {} THEN result.gateway = Absent
                   ELSE \E i \in defaults :
                            result.gateway = Some(dec.routes[i][3])
           ELSE /\ result.static_routes = Absent
                /\ b.router # Absent
                      => result.gateway = Some(b.router[1][1])

\* C10: parse_classless_static_routes returns None for a width above 32, a
\* truncated gateway or trailing bytes, and else the triples of the
\* entries in input order.
C10_DecodesEverySequence ==
    parsed.ret # "unset" => parsed = Rfc3442Decode(data)

----------------------------------------------------------------------------
(* SpecRegistry: DhcpAddressRequestorManager and load_requestors *)

\* dhcp_listening_device (None: "none") and dhcp_listening_ip of a realm.
Devices == {"none", "eth0"}
ListenIps == {"10.0.0.2", "10.0.0.3"}
ListenPairs == Devices \X ListenIps
\* realms_data.values(), each realm reduced to its listening pair.
RealmLists == UNION { [1..n -> ListenPairs] : n \in 0..MaxRealms }

has_requestor(mgr, pair) == pair \in DOMAIN mgr

\* add_requestor that registers the requestor whatever the map holds.
add_requestor_overwrite(mgr, requestor) ==
    [k \in DOMAIN mgr \cup {requestor.key} |->
        IF k = requestor.key THEN requestor.id ELSE mgr[k]]

add_requestor(mgr, requestor) ==
    IF requestor.key \in DOMAIN mgr THEN mgr
    ELSE [k \in DOMAIN mgr \cup {requestor.key} |->
             IF k = requestor.key THEN requestor.id ELSE mgr[k]]

\* The loop of load_requestors; the bind of ListeningSocket.__init__ raises
\* SocketLocalAddressBindFailed for a pair that is not bindable.
RECURSIVE load_loop(_, _, _)
load_loop(st, realms, bindable) ==
    IF realms = << >> THEN [st EXCEPT !.ret = "True"]
    ELSE LET pair == Head(realms)
         IN  IF has_requestor(st.by_key, pair)
             THEN load_loop(st, Tail(realms), bindable)
             ELSE IF pair \notin bindable
             THEN [st EXCEPT !.ret = "False"]
             ELSE LET requestor == [id |-> Len(st.sloop) + 1, key |-> pair]
                  IN  load_loop(
                          [st EXCEPT
                             !.sloop = Append(@, requestor.id),
                             !.by_key = add_requestor(@, requestor)],
                          Tail(realms), bindable)

load_requestors(st) == load_loop(st, st.realms, st.bindable)

\* Everything but reg is idle.
CoreIdle ==
    /\ servers = << >>
    /\ txn = << >>
    /\ requests = << >>
    /\ timers = {}
    /\ hist = << >>
    /\ ev = NoEv
    /\ data = NoData
    /\ parsed = NoParse
    /\ ack = NoAck
    /\ result = NoResult
coreVars == <<dhcpVars, routeVars, ackVars>>

InitRegistry ==
    /\ reg \in {[NoReg EXCEPT !.realms = rl, !.bindable = b] :
                  rl \in RealmLists, b \in SUBSET ListenPairs}
    /\ cmd = NoCmd
    /\ cl = NoCl
    /\ syn = NoSyn
    /\ lis = NoLis
    /\ chan = NoChan
    /\ esc = NoEsc
    /\ CoreIdle

LoadRequestors ==
    /\ reg.ret = "idle"
    /\ reg' = [load_requestors(reg) EXCEPT !.last = "load"]
    /\ UNCHANGED <<coreVars, cmd, cl, syn, lis, chan, esc>>

\* A requestor is constructed and handed to add_requestor.
AddRequestor ==
    \E pair \in ListenPairs :
        LET requestor == [id |-> Len(reg.sloop) + 1, key |-> pair]
        IN  /\ reg.ret = "True"
            /\ Len(reg.sloop) <= MaxRealms
            /\ reg' = [reg EXCEPT
                         !.sloop = Append(@, requestor.id),
                         !.before = reg.by_key,
                         !.added = requestor,
                         !.by_key = add_requestor(@, requestor),
                         !.last = "add"]
            /\ UNCHANGED <<coreVars, cmd, cl, syn, lis, chan, esc>>

NextRegistry == LoadRequestors \/ AddRequestor

SpecRegistry == InitRegistry /\ [][NextRegistry]_vars

----------------------------------------------------------------------------
(* Properties of the requestor registry (SpecRegistry) *)

CC_RET_FAILED == 0
CC_RET_SUCCEEDED == 1

\* Full usernames a hook sends, and what parse_username makes of them:
\* no match -> None, otherwise the realm component.
Usernames == {"a@b@c", "eve@nowhere", "alice@r1", "carol@r2", "dave@r3"}
parse_username(u) ==
    CASE u = "a@b@c" -> Absent
      [] u = "eve@nowhere" -> Some("nowhere")
      [] u = "alice@r1" -> Some("r1")
      [] u = "carol@r2" -> Some("r2")
      [] OTHER -> Some("r3")

\* The configuration: three realms, one concentrator.
realms_data == {"r1", "r2", "r3"}
cmd_servers == {"srv1"}

\* main.start_dhcp_address_request for a realm's listener: r1 has a
\* requestor (a transaction starts), r2 has none (returns silently), r3 is
\* configured without dhcp_server_ips (the request constructor raises).
start_dhcp_address_request(realm) ==
    CASE realm = "r1" -> "started"
      [] realm = "r2" -> "nothing"
      [] OTHER -> "raised"

\* int(idx) and files[...]: the file, or the exception raised.
IdxStrings == {"0", "1", "7", "x"}
file_at(files, idx) ==
    CASE idx = "x" -> [exc |-> "ValueError", f |-> 0]
      [] idx = "0" /\ Len(files) >= 1 -> [exc |-> "none", f |-> files[1]]
      [] idx = "1" /\ Len(files) >= 2 -> [exc |-> "none", f |-> files[2]]
      [] OTHER -> [exc |-> "IndexError", f |-> 0]

\* CommandConnection.send_cmd: one reply on the socket.
send_cmd(c, r) == [c EXCEPT !.last.replies = Append(@, r)]

\* OvpnCmdConn._write_ret with write_deferred_ret_file: seek(0), write.
write_ret(c, val) ==
    [c EXCEPT !.status[c.ret_f[1]] = Append(@, val),
              !.wrote_ret = TRUE,
              !.last.steps = Append(@, IF val = CC_RET_SUCCEEDED
                                       THEN "ret:1" ELSE "ret:0")]

\* The configuration fragment: written, flushed and synced.
write_config(c) ==
    [c EXCEPT !.config[c.config_f[1]] = TRUE,
              !.last.steps = Append(@, "config")]

\* OvpnClientManager.create_client as the connection's create_client_clb:
\* a record under (username, server), replacing one of the same key.
create_client_clb(c) ==
    [c EXCEPT !.clients = @ \cup {[username |-> c.full_username[1],
                                   server |-> c.server[1]]},
              !.last.steps = Append(@, "client")]

\* OvpnClientManager.client_disconnected as remove_client_clb.
remove_client_clb(c, u, srv) ==
    [c EXCEPT !.clients = @ \ {[username |-> u, server |-> srv]}]

\* Results a transaction hands to the success handler: the keys present.
Results == {[ip_address |-> a, subnet_mask |-> a, rebinding_timeout |-> l,
             lease_timeout |-> l] : a, l \in BOOLEAN}

\* Variants of the handlers, for the sensitivity runs of the theorems.
OvpnCmdConn_success_handler_status_first(c, res) ==
    IF ~res.ip_address \/ ~res.subnet_mask \/ ~res.rebinding_timeout
          \/ ~res.lease_timeout
    THEN write_ret(c, CC_RET_FAILED)
    ELSE create_client_clb(write_config(write_ret(c, CC_RET_SUCCEEDED)))

OvpnCmdConn_success_handler_unchecked(c, res) ==
    create_client_clb(write_ret(write_config(c), CC_RET_SUCCEEDED))

\* OvpnCmdConn._success_handler.
OvpnCmdConn_success_handler(c, res) ==
    IF ~res.ip_address \/ ~res.subnet_mask
    THEN write_ret(c, CC_RET_FAILED)
    ELSE IF ~res.rebinding_timeout \/ ~res.lease_timeout
    THEN write_ret(c, CC_RET_FAILED)
    ELSE create_client_clb(write_ret(write_config(c), CC_RET_SUCCEEDED))

\* OvpnCmdConn._failure_handler.
OvpnCmdConn_failure_handler(c) == write_ret(c, CC_RET_FAILED)

OvpnCmdConn_del_always(c) ==
    IF c.ret_f # Absent
    THEN [write_ret(c, CC_RET_FAILED) EXCEPT !.state = "destroyed"]
    ELSE [c EXCEPT !.state = "destroyed"]

\* OvpnCmdConn.__del__.
OvpnCmdConn_del(c) ==
    IF c.ret_f # Absent /\ ~c.wrote_ret
    THEN [write_ret(c, CC_RET_FAILED) EXCEPT !.state = "destroyed"]
    ELSE [c EXCEPT !.state = "destroyed"]

\* OvpnCmdConn._handle_request_cmd.
handle_request_cmd(c, m, files) ==
    IF m.user = Absent
    THEN send_cmd(c, "FAIL")
    ELSE LET c1 == [c EXCEPT !.full_username = m.user] IN
    IF m.ret_idx = Absent \/ m.cfg_idx = Absent \/ m.daemon = Absent
    THEN send_cmd(c1, "FAIL")
    ELSE LET ret_f == file_at(files, m.ret_idx[1])
             config_f == file_at(files, m.cfg_idx[1])
             ret == parse_username(m.user[1])
         IN
    IF ret_f.exc # "none" \/ config_f.exc # "none"
    THEN send_cmd(c1, "FAIL")
    ELSE IF ret = Absent
    THEN send_cmd(c1, "FAIL")
    ELSE IF ret[1] \notin realms_data
    THEN send_cmd(c1, "FAIL")
    ELSE IF m.daemon[1] \notin cmd_servers
    THEN send_cmd(c1, "FAIL")
    ELSE LET c2 == send_cmd([c1 EXCEPT !.realm_data = ret,
                                       !.server = m.daemon], "OK")
             c3 == [c2 EXCEPT !.ret_f = Some(ret_f.f),
                              !.config_f = Some(config_f.f),
                              !.okreqs = @ \cup {ret_f.f}]
         IN IF start_dhcp_address_request(ret[1]) = "started"
            THEN [c3 EXCEPT !.pending = @ + 1]
            ELSE c3

\* OvpnCmdConn._handle_disconnect_cmd.
handle_disconnect_cmd(c, m) ==
    IF m.user = Absent \/ m.daemon = Absent
    THEN send_cmd(c, "FAIL")
    ELSE IF m.daemon[1] \notin cmd_servers
    THEN send_cmd(c, "FAIL")
    ELSE remove_client_clb(send_cmd(c, "OK"), m.user[1], m.daemon[1])

\* OvpnCmdConn.handle_cmd.
handle_cmd(c, m, files) ==
    CASE m.kind = "request" -> handle_request_cmd(c, m, files)
      [] m.kind = "disconnect" -> handle_disconnect_cmd(c, m)
      [] OTHER -> send_cmd(c, "FAIL")

\* CommandConnection._parse_command: undecodable JSON is logged and dropped;
\* data["cmd"] of a message without that field raises KeyError.
parse_command(c, m, files) ==
    CASE m.kind = "badjson" -> c
      [] m.kind = "nocmd" -> [c EXCEPT !.state = "raised"]
      [] OTHER -> handle_cmd(c, m, files)

\* CommandConnection.handle_socket under SocketLoop.
\* _handle_ready_input_sockets: EOF removes the handler, and so does an
\* exception of the handler.
CommandConnection_handle_socket(c, m, files) ==
    IF m.kind = "eof"
    THEN [c EXCEPT !.state = "closed"]
    ELSE LET d == parse_command(c, m, files) IN
         IF d.state = "raised" THEN [d EXCEPT !.state = "closed"] ELSE d

\* Messages of the hooks, well-formed or not.
Opt(S) == {Absent} \cup {Some(x) : x \in S}
NoParams == [user |-> Absent, ret_idx |-> Absent, cfg_idx |-> Absent,
             daemon |-> Absent]
RequestMsgs ==
    {[NoParams EXCEPT !.user = u, !.ret_idx = r, !.cfg_idx = g,
                      !.daemon = d] :
        u \in Opt(Usernames), r \in Opt(IdxStrings),
        g \in {Some("1"), Some("7")}, d \in Opt({"srv1", "srv9"})}
DisconnectMsgs ==
    {[NoParams EXCEPT !.user = u, !.daemon = d] :
        u \in {Absent, Some("alice@r1")}, d \in Opt({"srv1", "srv9"})}
KindOnly(k) == [kind |-> k, user |-> Absent, ret_idx |-> Absent,
                cfg_idx |-> Absent, daemon |-> Absent]
WithKind(k, S) == {[kind |-> k, user |-> p.user, ret_idx |-> p.ret_idx,
                    cfg_idx |-> p.cfg_idx, daemon |-> p.daemon] : p \in S}
Msgs == WithKind("request", RequestMsgs)
          \cup WithKind("disconnect", DisconnectMsgs)
          \cup {KindOnly("badjson"), KindOnly("nocmd"), KindOnly("reload")}

\* The ghost record of the event that starts: the connection as it was.
begin(c, op) ==
    [c EXCEPT !.last = [op |-> op, replies |-> << >>, steps |-> << >>,
                        res |-> NoRes,
                        username |-> c.full_username, server |-> c.server,
                        realm |-> c.realm_data, ret_f |-> c.ret_f,
                        config_f |-> c.config_f, wrote_ret |-> c.wrote_ret,
                        pending |-> c.pending, clients |-> c.clients]]

OtherIdle == /\ reg = NoReg
             /\ cl = NoCl
             /\ syn = NoSyn
             /\ lis = NoLis
             /\ chan = NoChan
             /\ esc = NoEsc
             /\ CoreIdle

InitCmd ==
    /\ cmd = [NoCmd EXCEPT !.state = "open"]
    /\ OtherIdle

\* A message arrives with two descriptors.
ReceiveCmd ==
    /\ cmd.state = "open"
    /\ cmd.msgs < MaxMsgs
    /\ \E m \in Msgs :
          LET n == cmd.msgs + 1
              c == [begin(cmd, m.kind) EXCEPT !.msgs = n]
          IN cmd' = CommandConnection_handle_socket(c, m, <<2*n - 1, 2*n>>)
    /\ UNCHANGED <<coreVars, reg, cl, syn, lis, chan, esc>>

\* The hook closes its end.
ReceiveEof ==
    /\ cmd.state = "open"
    /\ cmd' = CommandConnection_handle_socket(begin(cmd, "eof"),
                                              KindOnly("eof"), << >>)
    /\ UNCHANGED <<coreVars, reg, cl, syn, lis, chan, esc>>

\* A transaction the connection started ends with a success.
TxnSucceeds ==
    /\ cmd.pending > 0
    /\ \E res \in Results :
          cmd' = OvpnCmdConn_success_handler(
                    [begin(cmd, "success") EXCEPT !.pending = @ - 1,
                                                  !.last.res = res], res)
    /\ UNCHANGED <<coreVars, reg, cl, syn, lis, chan, esc>>

\* ... with a failure (NACK, retries exhausted).
TxnFails ==
    /\ cmd.pending > 0
    /\ cmd' = OvpnCmdConn_failure_handler(
                 [begin(cmd, "failure") EXCEPT !.pending = @ - 1])
    /\ UNCHANGED <<coreVars, reg, cl, syn, lis, chan, esc>>

\* ... or is dropped without either callback (handle_dhcp_ack raising).
TxnLost ==
    /\ cmd.pending > 0
    /\ cmd' = [begin(cmd, "lost") EXCEPT !.pending = @ - 1]
    /\ UNCHANGED <<coreVars, reg, cl, syn, lis, chan, esc>>

\* The last reference to the connection goes: the socket loop dropped it
\* and no transaction holds its bound methods.
Destroy ==
    /\ cmd.state = "closed"
    /\ cmd.pending = 0
    /\ cmd' = OvpnCmdConn_del(begin(cmd, "del"))
    /\ UNCHANGED <<coreVars, reg, cl, syn, lis, chan, esc>>

NextCmd == ReceiveCmd \/ ReceiveEof \/ TxnSucceeds \/ TxnFails \/ TxnLost
              \/ Destroy
SpecCmd == InitCmd /\ [][NextCmd]_vars


\* The scheduling the daemon provides: the hook closes its end, every
\* transaction ends (timers fire), and an unreferenced connection is
\* destructed.
SpecCmdLive ==
    /\ SpecCmd
    /\ WF_vars(ReceiveEof)
    /\ WF_vars(TxnSucceeds \/ TxnFails \/ TxnLost)
    /\ WF_vars(Destroy)

(***************************************************************************)
(* Properties of the command connection.                                   *)
(***************************************************************************)

\* C12: for every request command answered OK, the deferred-status file
\* passed with that request is eventually written with "1" or "0", also
\* without a requestor, when starting the transaction raises, and when a
\* second request arrives on the same connection.
C12_StatusEventuallyWritten ==
    \A f \in FileIds :
        (f \in cmd.okreqs) ~> (cmd.status[f] # << >>)


Complete(res) == res.ip_address /\ res.subnet_mask /\ res.rebinding_timeout
                    /\ res.lease_timeout
StepBefore(a, b) ==
    \A i \in 1..Len(cmd.last.steps) :
        cmd.last.steps[i] = b =>
            \E j \in 1..(i - 1) : cmd.last.steps[j] = a

\* C13: on a success with a complete result the configuration fragment is
\* written and synced, then SUCCEEDED is written, then the client record is
\* created; SUCCEEDED is never written before the fragment is complete and
\* a request creates a client record only after SUCCEEDED was written.
C13_SuccessOrder ==
    /\ (cmd.last.op = "success" /\ Complete(cmd.last.res))
          => cmd.last.steps = <<"config", "ret:1", "client">>
    /\ StepBefore("config", "ret:1")
    /\ StepBefore("ret:1", "client")
    /\ cmd.clients # {}
          => \E f \in FileIds : CC_RET_SUCCEEDED \in Range(cmd.status[f])
C13_Witness ==
    /\ cmd.last.op = "success"
    /\ Complete(cmd.last.res)
    /\ cmd.last.steps = <<"config", "ret:1", "client">>
    /\ cmd.config[cmd.config_f[1]]
    /\ cmd.clients # {}

InboundKinds == {"request", "disconnect", "badjson", "nocmd", "reload"}

\* C16: every inbound message is answered with exactly one reply, OK or
\* FAIL; bad JSON, a message without a cmd field and an unknown command
\* are answered with FAIL.
C16_OneReplyEach ==
    cmd.last.op \in InboundKinds =>
        /\ Len(cmd.last.replies) = 1
        /\ cmd.last.replies[1] \in {"OK", "FAIL"}
        /\ cmd.last.op \in {"badjson", "nocmd", "reload"}
              => cmd.last.replies = <<"FAIL">>

\* C17: a request or disconnect command answered FAIL mutates no state: no
\* transaction started, no descriptor retained, the remembered username,
\* realm and server unchanged, the client registry unchanged.
C17_FailMutatesNothing ==
    (cmd.last.op \in {"request", "disconnect"}
        /\ cmd.last.replies = <<"FAIL">>)
    => /\ cmd.pending = cmd.last.pending
       /\ cmd.ret_f = cmd.last.ret_f
       /\ cmd.config_f = cmd.last.config_f
       /\ cmd.full_username = cmd.last.username
       /\ cmd.realm_data = cmd.last.realm
       /\ cmd.server = cmd.last.server
       /\ cmd.clients = cmd.last.clients


(***************************************************************************)
(* SpecClients: the client records (OvpnClient) and their manager          *)
(* (OvpnClientManager), the renewal timers in the timeout manager and the  *)
(* refresh transactions in flight.  Times are seconds on the daemon's      *)
(* clock cl.now.                                                           *)
(***************************************************************************)
ClientsOthers == <<coreVars, reg, cmd, syn, lis, chan, esc>>
ClientsOthersIdle ==
    /\ reg = NoReg
    /\ cmd = NoCmd
    /\ syn = NoSyn
    /\ lis = NoLis
    /\ chan = NoChan
    /\ esc = NoEsc
    /\ CoreIdle

effect(c, x) == [c EXCEPT !.last.effects = Append(@, x)]

\* The TimeoutObjects of a record in the timeout manager, and those due.
ClArmed(c, id) == {tm \in c.timers : tm[1] = id}
Due(c) == {tm \in c.timers : tm[2] <= c.now}

\* Variants of the record's operations, for the sensitivity runs.
kill_cancelling(c, id, by) ==
    [c EXCEPT !.recs[id].killed = TRUE, !.recs[id].killed_by = by,
              !.timers = @ \ ClArmed(c, id)]

\* OvpnClient.kill: the flag only; pending activities continue.
kill(c, id, by) ==
    [c EXCEPT !.recs[id].killed = TRUE, !.recs[id].killed_by = by]

\* A _del_client that leaves the concentrator's map alone.
del_client_by_username(c, id, by) ==
    [kill(c, id, by) EXCEPT !.by_username[c.recs[id].username] = 0]

\* OvpnClientManager._del_client: kill, then del from both indices (a
\* missing key raises KeyError).
del_client(c, id, by) ==
    LET r == c.recs[id]
        k == kill(c, id, by)
    IN IF c.by_username[r.username] = 0
       THEN [k EXCEPT !.raised = TRUE]
       ELSE IF c.by_server[r.server][r.username] = 0
       THEN [k EXCEPT !.by_username[r.username] = 0, !.raised = TRUE]
       ELSE [k EXCEPT !.by_username[r.username] = 0,
                      !.by_server[r.server][r.username] = 0]

add_client_without_del(c, id) ==
    [c EXCEPT !.by_username[c.recs[id].username] = id,
              !.by_server[c.recs[id].server][c.recs[id].username] = id]

\* OvpnClientManager._add_client: replace on conflict.
add_client(c, id) ==
    LET r == c.recs[id]
        d == IF c.by_username[r.username] # 0
             THEN del_client(c, c.by_username[r.username], "replace")
             ELSE c
    IN IF d.raised THEN d
       ELSE [d EXCEPT !.by_username[r.username] = id,
                      !.by_server[r.server][r.username] = id]

\* OvpnClient.track_lease: TimeoutObject(rebinding_timeout, handle_timeout).
track_lease(c, id) ==
    IF c.recs[id].leased_ip = Absent \/ c.recs[id].rebinding = Absent
    THEN c
    ELSE [c EXCEPT !.timers = @ \cup {<<id, c.recs[id].rebinding[1]>>}]

\* OvpnClientManager.create_client.
create_client(c, u, sv, leased_ip, rebinding, lease) ==
    LET id == Len(c.recs) + 1
        r == [NoRec EXCEPT !.username = u, !.server = sv,
                           !.leased_ip = leased_ip,
                           !.rebinding = rebinding, !.lease = lease]
    IN add_client(track_lease([c EXCEPT !.recs = Append(@, r)], id), id)

\* A client_disconnected that looks the username up without the
\* concentrator.
client_disconnected_any_server(c, u, sv) ==
    IF c.by_username[u] = 0
    THEN c
    ELSE del_client(c, c.by_username[u], "disconnect")

\* OvpnClientManager.client_disconnected.
client_disconnected(c, u, sv) ==
    IF sv \notin ClServers
    THEN c
    ELSE IF c.by_server[sv][u] = 0
    THEN c
    ELSE del_client(c, c.by_server[sv][u], "disconnect")

\* random.uniform(0, 10) of _create_detected_client, sampled.
DetectSpread == 10
Spreads == {0, DetectSpread}

create_detected_client_unchecked(c, u, sv, vaddr, spread) ==
    create_client(c, u, sv, Some(vaddr), Some(c.now + spread), Absent)

\* OvpnClientManager._create_detected_client.
create_detected_client(c, u, sv, vaddr, spread) ==
    LET ret == parse_username(u) IN
    IF ret = Absent
    THEN effect(c, "mgr_disconnect")
    ELSE IF ret[1] \notin realms_data
    THEN effect(c, "mgr_disconnect")
    ELSE create_client(c, u, sv, Some(vaddr), Some(c.now + spread), Absent)

\* A client list of a concentrator: per common name at most one entry,
\* <<common_name, virtual_address>>, the address Absent while the
\* connection is not fully established.
VirtualAddress == "10.8.0.6"
Entry(u, listing) == <<u, IF listing = "assigned" THEN Some(VirtualAddress)
                          ELSE Absent>>
ClientLists ==
    {{Entry(u, f[u]) : u \in {v \in ClUsers : f[v] # "absent"}} :
        f \in [ClUsers -> {"absent", "unassigned", "assigned"}]}
Names(entries) == {e[1] : e \in entries}

\* Variant of the first loop, for the sensitivity runs.
RECURSIVE sync_listed_keeping(_, _, _, _)
sync_listed_keeping(c, todo, sv, spread) ==
    IF todo = {} \/ c.raised
    THEN c
    ELSE LET e == CHOOSE x \in todo : TRUE
             c2 == IF c.by_username[e[1]] = 0
                   THEN create_detected_client(c, e[1], sv, e[2][1], spread)
                   ELSE c
         IN IF e[2] = Absent
            THEN sync_listed_keeping(c, todo \ {e}, sv, spread)
            ELSE sync_listed_keeping(c2, todo \ {e}, sv, spread)

\* OvpnClientManager._sync_clients_with, first loop: the clients the server
\* lists; client_data_by_username collects those with an address.
RECURSIVE sync_listed(_, _, _, _)
sync_listed(c, todo, sv, spread) ==
    IF todo = {} \/ c.raised
    THEN c
    ELSE LET e == CHOOSE x \in todo : TRUE
             u == e[1]
             c1 == IF c.by_username[u] # 0
                      /\ c.recs[c.by_username[u]].server # sv
                   THEN del_client(c, c.by_username[u], "sync")
                   ELSE c
             c2 == IF c1.raised THEN c1
                   ELSE IF c1.by_username[u] = 0
                   THEN create_detected_client(c1, u, sv, e[2][1], spread)
                   ELSE c1
         IN IF e[2] = Absent
            THEN sync_listed(c, todo \ {e}, sv, spread)
            ELSE sync_listed(c2, todo \ {e}, sv, spread)

\* Second loop: the server's records whose name is not in
\* client_data_by_username.
RECURSIVE sync_unlisted(_, _, _, _)
sync_unlisted(c, todo, by_username, sv) ==
    IF todo = {} \/ c.raised
    THEN c
    ELSE LET u == CHOOSE x \in todo : TRUE
             c1 == IF u \notin by_username
                   THEN del_client(c, c.by_server[sv][u], "sync")
                   ELSE c
         IN sync_unlisted(c1, todo \ {u}, by_username, sv)

sync_clients_with(c, entries, sv, spread) ==
    LET c1 == sync_listed(c, entries, sv, spread)
    IN sync_unlisted(c1, {u \in ClUsers : c1.by_server[sv][u] # 0},
                     Names({e \in entries : e[2] # Absent}), sv)

\* DhcpAddressRefreshRequest.__init__ for client_ip: the state it starts in
\* and the packet it sends first.
refresh_request(client_ip) ==
    LET r == [NewRequest("refresh", 1) EXCEPT !.client_ip = client_ip]
    IN [state |-> r.state, packet |-> generate_refresh_request(r)]
NoReq == [state |-> 0, packet |-> generate_discover([xid |-> 0])]

refresh_lease(c, id, start) ==
    CASE start = "started" ->
           effect([c EXCEPT !.refreshes = @ \cup {id},
                            !.last.req =
                               refresh_request(c.recs[id].leased_ip[1])],
                  "refresh")
      [] start = "raised" -> effect(c, "disconnect")
      [] OTHER -> c

OvpnClient_handle_timeout_unguarded(c, id, start) ==
    IF c.recs[id].lease # Absent /\ c.recs[id].lease[1] <= c.now
    THEN effect(c, "disconnect")
    ELSE refresh_lease(c, id, start)

OvpnClient_handle_timeout_renewing(c, id, start) ==
    IF c.recs[id].killed
    THEN c
    ELSE refresh_lease(c, id, start)

\* OvpnClient.handle_timeout: the refresh starts, finds no requestor, or
\* raises.
OvpnClient_handle_timeout(c, id, start) ==
    IF c.recs[id].killed
    THEN c
    ELSE IF c.recs[id].lease # Absent /\ c.recs[id].lease[1] <= c.now
    THEN effect(c, "disconnect")
    ELSE refresh_lease(c, id, start)

handle_lease_refresh_succeeded_stale(c, id, res) ==
    IF c.recs[id].killed
    THEN c
    ELSE effect([c EXCEPT !.recs[id].rebinding =
                             Some(res.rebinding_timeout),
                          !.recs[id].lease = Some(res.lease_timeout),
                          !.timers = @ \cup {<<id, res.rebinding_timeout>>}],
                "arm")

\* OvpnClient._handle_lease_refresh_succeeded.
handle_lease_refresh_succeeded(c, id, res) ==
    IF c.recs[id].killed
    THEN c
    ELSE effect([c EXCEPT !.recs[id].leased_ip = Some(res.ip_address),
                          !.recs[id].rebinding =
                             Some(res.rebinding_timeout),
                          !.recs[id].lease = Some(res.lease_timeout),
                          !.timers = @ \cup {<<id, res.rebinding_timeout>>}],
                "arm")

handle_lease_refresh_failed_unguarded(c, id) == effect(c, "disconnect")

handle_lease_refresh_failed_reaping(c, id) ==
    IF c.recs[id].killed
    THEN c
    ELSE IF c.by_username[c.recs[id].username] = id
    THEN del_client(effect(c, "disconnect"), id, "failure")
    ELSE effect(c, "disconnect")

\* OvpnClient._handle_lease_refresh_failed.
handle_lease_refresh_failed(c, id) ==
    IF c.recs[id].killed
    THEN c
    ELSE effect(c, "disconnect")

\* The ghost record of the event that starts: its operation, the record it
\* is about as it was, and its inputs.
NoArg == [sv |-> "none", entries |-> {}, res |-> << >>, start |-> "none"]
begin_cl(c, op, id, arg) ==
    [c EXCEPT !.last = [op |-> op, id |-> id,
                        zombie |-> IF id = 0 THEN FALSE
                                   ELSE c.recs[id].killed,
                        effects |-> << >>,
                        before |-> IF id = 0 THEN NoRec ELSE c.recs[id],
                        req |-> NoReq, arg |-> arg]]

Ids == 1..Len(cl.recs)

InitClients ==
    /\ cl = NoCl
    /\ ClientsOthersIdle

\* The lease times of an ACK received at time now, sampled.
RebindAfter == 5
ExpireAfter == 10
LeasedIps == {OfferedIp, LeasedIp}
AckTimes(now) == [rebinding_timeout |-> now + RebindAfter,
                  lease_timeout |-> now + ExpireAfter]

\* A request succeeded: the command connection creates the record.
CreateClient ==
    /\ ~cl.raised
    /\ Len(cl.recs) < MaxClients
    /\ \E u \in {v \in ClUsers : /\ parse_username(v) # Absent
                                  /\ parse_username(v)[1] \in realms_data},
          sv \in ClServers :
          cl' = create_client(
                   begin_cl(cl, "create", 0, NoArg),
                   u, sv, Some(OfferedIp),
                   Some(AckTimes(cl.now).rebinding_timeout),
                   Some(AckTimes(cl.now).lease_timeout))
    /\ UNCHANGED ClientsOthers

\* client_disconnected is called for a user and a concentrator, one of
\* the manager's or another.
DisconnectServers == ClServers \cup {"srv9"}
ClientDisconnected ==
    /\ ~cl.raised
    /\ \E u \in ClUsers, sv \in DisconnectServers :
          cl' = client_disconnected(
                   begin_cl(cl, "client_disconnected",
                            IF sv \in ClServers THEN cl.by_server[sv][u]
                            ELSE 0,
                            [NoArg EXCEPT !.sv = sv]),
                   u, sv)
    /\ UNCHANGED ClientsOthers

\* A concentrator's client list arrives.
SyncClientsWith ==
    /\ ~cl.raised
    /\ \E entries \in ClientLists, sv \in ClServers, spread \in Spreads :
          /\ Len(cl.recs) + Cardinality(entries) <= MaxClients
          /\ cl' = sync_clients_with(
                      begin_cl(cl, "sync", 0,
                               [NoArg EXCEPT !.sv = sv,
                                             !.entries = entries]),
                      entries, sv, spread)
    /\ UNCHANGED ClientsOthers

\* The timeout manager removes a due TimeoutObject of a record and calls
\* its callback.  Once load_requestors returned True every realm has a
\* requestor, so the refresh starts or its constructor raises.
ClientTimerFires ==
    /\ ~cl.raised
    /\ \E tm \in Due(cl), start \in {"started", "raised"} :
          cl' = OvpnClient_handle_timeout(
                   [begin_cl(cl, "timeout", tm[1],
                             [NoArg EXCEPT !.start = start])
                       EXCEPT !.timers = @ \ {tm}],
                   tm[1], start)
    /\ UNCHANGED ClientsOthers

\* A refresh transaction of a record succeeds.
RefreshSucceeds ==
    /\ ~cl.raised
    /\ \E id \in cl.refreshes, ip \in LeasedIps :
          LET res == [ip_address |-> ip,
                      rebinding_timeout |->
                         AckTimes(cl.now).rebinding_timeout,
                      lease_timeout |-> AckTimes(cl.now).lease_timeout]
          IN cl' = handle_lease_refresh_succeeded(
                      [begin_cl(cl, "refresh_succeeded", id,
                                [NoArg EXCEPT !.res = Some(res)])
                          EXCEPT !.refreshes = @ \ {id}], id, res)
    /\ UNCHANGED ClientsOthers

\* ... or fails.
RefreshFails ==
    /\ ~cl.raised
    /\ \E id \in cl.refreshes :
          cl' = handle_lease_refresh_failed(
                   [begin_cl(cl, "refresh_failed", id, NoArg)
                       EXCEPT !.refreshes = @ \ {id}], id)
    /\ UNCHANGED ClientsOthers

\* ... or ends with neither callback: handle_dhcp_ack has cancelled the
\* timer and removed the transaction when the parsing of the accepted ACK
\* raises, and handle_socket logs the exception.
RefreshLost ==
    /\ ~cl.raised
    /\ \E id \in cl.refreshes :
          cl' = [begin_cl(cl, "refresh_lost", id, NoArg)
                    EXCEPT !.refreshes = @ \ {id}]
    /\ UNCHANGED ClientsOthers

\* The clock advances.
TickStep == 5
Tick ==
    /\ cl.now + TickStep <= MaxNow
    /\ cl' = [begin_cl(cl, "tick", 0, NoArg) EXCEPT !.now = @ + TickStep]
    /\ UNCHANGED ClientsOthers

NextClients == CreateClient \/ ClientDisconnected \/ SyncClientsWith
                  \/ ClientTimerFires \/ RefreshSucceeds \/ RefreshFails
                  \/ RefreshLost \/ Tick
SpecClients == InitClients /\ [][NextClients]_vars

(***************************************************************************)
(* Properties of the client records.                                       *)
(***************************************************************************)
Indexed(id) ==
    \/ \E u \in ClUsers : cl.by_username[u] = id
    \/ \E sv \in ClServers, u \in ClUsers : cl.by_server[sv][u] = id
Callback == {"timeout", "refresh_succeeded", "refresh_failed"}

\* C18: after client_disconnected(u, s) returned for a held record, the
\* record is in neither index, and no later callback of it (renewal timer,
\* success or failure of a refresh in flight) mutates it, issues a
\* disconnect, starts a transaction or arms a timer for it.
C18_DisconnectedIsInert ==
    /\ \A id \in Ids :
          cl.recs[id].killed_by = "disconnect" => ~Indexed(id)
    /\ (cl.last.op \in Callback
           /\ cl.last.before.killed_by = "disconnect")
          => /\ cl.last.effects = << >>
             /\ cl.recs[cl.last.id] = cl.last.before
             /\ ClArmed(cl, cl.last.id) = {}
             /\ cl.last.id \notin cl.refreshes
    /\ ~cl.raised
C18_Witness ==
    /\ cl.last.op = "refresh_succeeded"
    /\ cl.last.before.killed_by = "disconnect"
    /\ cl.last.effects = << >>

\* C19 as stated: killing a record sets its zombie flag, cancels its renewal
\* timer so that none of its timers remains armed, and removes it from both
\* indices.
C19_KillCancelsTimer ==
    \A id \in Ids :
        cl.recs[id].killed => (ClArmed(cl, id) = {} /\ ~Indexed(id))

\* C19 as the code has it: killing a record (disconnect, replace on
\* conflict, sync) sets its zombie flag and removes it from both indices;
\* a record in an index is not a zombie; the timer of a killed record stays
\* armed and does nothing when it fires.
C19_KillFlagsAndUnindexes ==
    /\ [](\A id \in Ids :
            /\ cl.recs[id].killed <=> cl.recs[id].killed_by # "none"
            /\ cl.recs[id].killed <=> ~Indexed(id))
    /\ []((cl.last.op = "client_disconnected" /\ cl.last.id # 0)
            => cl.recs[cl.last.id].killed)
    /\ []((cl.last.op = "timeout" /\ cl.last.zombie)
            => (cl.last.effects = << >> /\ ClArmed(cl, cl.last.id) = {}))
    /\ [][\A id \in Ids :
            (ClArmed(cl, id) # {} /\ ClArmed(cl', id) = {})
               => (cl'.last.op = "timeout" /\ cl'.last.id = id)]_vars
C19_Witness ==
    /\ cl.last.op = "client_disconnected"
    /\ cl.last.id # 0
    /\ cl.recs[cl.last.id].killed
    /\ ClArmed(cl, cl.last.id) # {}
    /\ ~Indexed(cl.last.id)

\* C20: a record whose zombie flag is set never calls
\* server.disconnect_client and never starts a refresh: its timer callback
\* and the callbacks of a refresh in flight when it was killed return
\* without effect, however the kill interleaves with them.
C20_ZombieDoesNothing ==
    (cl.last.op \in Callback /\ cl.last.zombie)
    => /\ "disconnect" \notin Range(cl.last.effects)
       /\ "refresh" \notin Range(cl.last.effects)
       /\ cl.last.effects = << >>
       /\ cl.refreshes \subseteq
             {id \in Ids : id # cl.last.id}
C20_Witness ==
    /\ cl.last.op = "refresh_failed"
    /\ cl.last.zombie
    /\ cl.last.before.killed_by = "replace"
    /\ cl.last.effects = << >>


Held(c, id) ==
    /\ c.by_username[c.recs[id].username] = id
    /\ \A sv \in ClServers :
          c.by_server[sv][c.recs[id].username]
             = (IF sv = c.recs[id].server THEN id ELSE 0)
Expired(r, now) == r.lease # Absent /\ r.lease[1] <= now

\* C21: create for a username that already has a record, on the same or
\* on another concentrator, replaces it: both indices hold exactly the new,
\* non-zombie record for the username, every earlier record of the
\* username is a zombie under no concentrator, and the new record has one
\* timer, armed at its rebinding time.
C21_CreateReplaces ==
    cl.last.op = "create" =>
        LET id == Len(cl.recs) IN
        /\ ~cl.recs[id].killed
        /\ Held(cl, id)
        /\ \A j \in 1..(id - 1) :
              cl.recs[j].username = cl.recs[id].username
                 => (cl.recs[j].killed /\ ~Indexed(j))
        /\ cl.recs[id].rebinding # Absent
        /\ ClArmed(cl, id) = {<<id, cl.recs[id].rebinding[1]>>}
C21_Witness ==
    /\ cl.last.op = "create"
    /\ Len(cl.recs) = 2
    /\ cl.recs[1].username = cl.recs[2].username
    /\ cl.recs[1].server # cl.recs[2].server
    /\ cl.recs[1].killed_by = "replace"
    /\ Held(cl, 2)

\* C22: when the renewal timer of a non-zombie record fires and its lease
\* expiry is known and not after now, server.disconnect_client is called
\* once, no refresh starts, no timer is armed, and the record stays in the
\* registry unchanged.
C22_ExpiredDisconnects ==
    (cl.last.op = "timeout" /\ ~cl.last.zombie
        /\ Expired(cl.last.before, cl.now))
    => /\ cl.last.effects = <<"disconnect">>
       /\ cl.last.id \notin cl.refreshes
       /\ ClArmed(cl, cl.last.id) = {}
       /\ cl.recs[cl.last.id] = cl.last.before
       /\ Held(cl, cl.last.id)
C22_Witness ==
    /\ cl.last.op = "timeout"
    /\ ~cl.last.zombie
    /\ Expired(cl.last.before, cl.now)
    /\ cl.last.arg.start = "started"
    /\ cl.last.effects = <<"disconnect">>

Unindexing(id) ==
    /\ cl.by_username[cl.recs[id].username] = id
    /\ cl'.by_username[cl.recs[id].username] # id

\* C24 as stated: a failed refresh of a non-zombie record calls
\* server.disconnect_client, leaves the record in the registry, not a
\* zombie, arms no timer; the record is removed only by a later disconnect
\* command or sync.
C24_OnlyDisconnectOrSyncRemoves ==
    [][\A id \in Ids :
          Unindexing(id) => cl'.last.op \in {"client_disconnected", "sync"}
      ]_vars

\* C24 as the code has it: the failure calls server.disconnect_client,
\* leaves the record in both indices unchanged and not a zombie, and arms
\* no timer; a record leaves the registry only through a disconnect
\* command, a sync, or the creation of a new record for its username.
C24_FailureKeepsRecord ==
    /\ []((cl.last.op = "refresh_failed" /\ ~cl.last.zombie)
            => /\ cl.last.effects = <<"disconnect">>
               /\ cl.recs[cl.last.id] = cl.last.before
               /\ ~cl.recs[cl.last.id].killed
               /\ Held(cl, cl.last.id)
               /\ ClArmed(cl, cl.last.id) = {}
               /\ cl.last.id \notin cl.refreshes)
    /\ [][\A id \in Ids :
            Unindexing(id)
               => cl'.last.op \in {"client_disconnected", "sync", "create"}
        ]_vars
C24_Witness ==
    /\ cl.last.op = "refresh_failed"
    /\ ~cl.last.zombie
    /\ cl.last.effects = <<"disconnect">>
    /\ Held(cl, cl.last.id)


\* The step is a sync reconciliation; its concentrator and client list.
Synced == cl'.last.op = "sync"
SyncServer == cl'.last.arg.sv
SyncList == cl'.last.arg.entries
Assigned(entries) == {e \in entries : e[2] # Absent}
Creatable(u) ==
    /\ parse_username(u) # Absent
    /\ parse_username(u)[1] \in realms_data
Added == (Len(cl.recs) + 1)..Len(cl'.recs)
Count(seq, x) == Cardinality({i \in DOMAIN seq : seq[i] = x})

\* C25: during a sync, for a listed entry with an assigned address whose
\* username the registry does not hold: if the username parses and its
\* realm is known, a record is created under the concentrator with
\* leased_ip the virtual address, lease expiry unknown, rebinding time in
\* [now, now + 10] and its timer armed; otherwise the concentrator is asked
\* to disconnect the client and no record is created.
C25_DetectedClient ==
    [][Synced =>
        /\ \A e \in Assigned(SyncList) :
              cl.by_username[e[1]] = 0 =>
                 IF Creatable(e[1])
                 THEN LET id == cl'.by_username[e[1]] IN
                      /\ id \in Added
                      /\ Held(cl', id)
                      /\ cl'.recs[id].username = e[1]
                      /\ cl'.recs[id].server = SyncServer
                      /\ ~cl'.recs[id].killed
                      /\ cl'.recs[id].leased_ip = e[2]
                      /\ cl'.recs[id].lease = Absent
                      /\ cl'.recs[id].rebinding # Absent
                      /\ cl'.recs[id].rebinding[1]
                            \in cl.now..(cl.now + DetectSpread)
                      /\ ClArmed(cl', id)
                            = {<<id, cl'.recs[id].rebinding[1]>>}
                 ELSE /\ cl'.by_username[e[1]] = 0
                      /\ \A j \in Added : cl'.recs[j].username # e[1]
        /\ Count(cl'.last.effects, "mgr_disconnect")
              = Cardinality({e \in Assigned(SyncList) :
                                /\ cl.by_username[e[1]] = 0
                                /\ ~Creatable(e[1])})
      ]_vars
C25_Witness ==
    /\ cl.last.op = "sync"
    /\ Len(cl.recs) = 1
    /\ cl.recs[1].lease = Absent
    /\ cl.recs[1].leased_ip = Some(VirtualAddress)
    /\ ClArmed(cl, 1) # {}
    /\ Count(cl.last.effects, "mgr_disconnect") = 1
    /\ Cardinality(cl.last.arg.entries) = 2

\* C26: after a sync for concentrator S with client list L, every record
\* held under S has a username that occurs in L; records held under S
\* whose username does not occur in L are killed and removed from both
\* indices; a record held under S whose username occurs in L is kept
\* unchanged: same record, same timer, same lease data.
C26_SyncReconciles ==
    [][Synced =>
        /\ \A u \in ClUsers :
              cl'.by_server[SyncServer][u] # 0 => u \in Names(SyncList)
        /\ \A u \in ClUsers \ Names(SyncList) :
              LET id == cl.by_server[SyncServer][u] IN
              id # 0 => /\ cl'.recs[id].killed
                        /\ cl'.by_username[u] # id
                        /\ cl'.by_server[SyncServer][u] # id
        /\ \A u \in Names(SyncList) :
              LET id == cl.by_server[SyncServer][u] IN
              id # 0 => /\ cl'.by_server[SyncServer][u] = id
                        /\ cl'.by_username[u] = cl.by_username[u]
                        /\ cl'.recs[id] = cl.recs[id]
                        /\ ClArmed(cl', id) = ClArmed(cl, id)
      ]_vars

\* C27: during a sync a listed entry whose virtual address is not yet
\* assigned is skipped: no record is created for its common name and no
\* existing record of that common name is killed or removed.
C27_UnassignedSkipped ==
    [][Synced =>
        \A e \in SyncList \ Assigned(SyncList) :
           /\ \A j \in Added : cl'.recs[j].username # e[1]
           /\ cl'.by_username[e[1]] = cl.by_username[e[1]]
           /\ \A sv \in ClServers :
                 cl'.by_server[sv][e[1]] = cl.by_server[sv][e[1]]
           /\ \A j \in 1..Len(cl.recs) :
                 cl.recs[j].username = e[1] => cl'.recs[j] = cl.recs[j]
      ]_vars

\* C28: during a sync for concentrator S, if S lists, with an address, a
\* client the registry holds under a different concentrator S', the old
\* record is killed and removed from both indices, nothing is held for the
\* username under S' any more, and after the sync the username is held by
\* at most one record, which is under S.
C28_ServerJump ==
    [][Synced =>
        \A e \in Assigned(SyncList) :
           LET u == e[1]
               old == cl.by_username[u]
           IN (old # 0 /\ cl.recs[old].server # SyncServer) =>
                 /\ cl'.recs[old].killed
                 /\ cl'.by_username[u] # old
                 /\ \A sv \in ClServers \ {SyncServer} :
                       cl'.by_server[sv][u] = 0
                 /\ cl'.by_server[SyncServer][u] = cl'.by_username[u]
                 /\ cl'.by_username[u] # 0 =>
                       /\ cl'.recs[cl'.by_username[u]].server = SyncServer
                       /\ ~cl'.recs[cl'.by_username[u]].killed
                 /\ Cardinality({j \in 1..Len(cl'.recs) :
                                    /\ cl'.recs[j].username = u
                                    /\ ~cl'.recs[j].killed}) <= 1
      ]_vars
C28_Witness ==
    /\ cl.last.op = "sync"
    /\ Len(cl.recs) = 2
    /\ cl.recs[1].killed_by = "sync"
    /\ cl.recs[1].username = cl.recs[2].username
    /\ cl.recs[1].server # cl.recs[2].server
    /\ cl.recs[2].server = cl.last.arg.sv
    /\ Held(cl, 2)


Unheld(c, id) ==
    /\ \A u \in ClUsers : c.by_username[u] # id
    /\ \A sv \in ClServers, u \in ClUsers : c.by_server[sv][u] # id
SameIndices(u) ==
    /\ cl'.by_username[u] = cl.by_username[u]
    /\ \A sv \in ClServers : cl'.by_server[sv][u] = cl.by_server[sv][u]
\* A step of client_disconnected that found no record under the
\* concentrator it was called for.
DisconnectingUnheld ==
    /\ cl'.last.op = "client_disconnected"
    /\ cl'.last.id = 0

\* C37: client_disconnected(u, s) for a username the registry does not
\* hold under s, or for an unknown concentrator, leaves both indices, all
\* records, the timers and the refreshes unchanged and does not raise.  A
\* record that was removed stays as it is and outside both indices in every
\* later step, and a sync of a concentrator that does not hold a username
\* and does not list it with an address leaves the username's index
\* entries unchanged.
C37_DoubleReapIsNoOp ==
    /\ [](~cl.raised)
    /\ [][DisconnectingUnheld
               => /\ cl'.last.arg.sv \in DisconnectServers
                  /\ cl'.by_username = cl.by_username
                  /\ cl'.by_server = cl.by_server
                  /\ cl'.recs = cl.recs
                  /\ cl'.timers = cl.timers
                  /\ cl'.refreshes = cl.refreshes
                  /\ cl'.last.effects = << >>]_vars
    /\ [][\A id \in Ids :
            (cl.recs[id].killed /\ Unheld(cl, id))
               => /\ cl'.recs[id] = cl.recs[id]
                  /\ Unheld(cl', id)]_vars
    /\ [][\A u \in ClUsers :
            (Synced /\ cl.by_server[SyncServer][u] = 0
                /\ u \notin Names(Assigned(SyncList)))
               => SameIndices(u)]_vars

\* The last event was a client_disconnected that found no record, for a
\* concentrator from which an earlier client_disconnected had removed a
\* record and under which no record is left; a record of that username is
\* held under the other concentrator.
C37_Witness ==
    /\ cl.last.op = "client_disconnected"
    /\ cl.last.id = 0
    /\ cl.last.arg.sv \in ClServers
    /\ \A u \in ClUsers : cl.by_server[cl.last.arg.sv][u] = 0
    /\ \E id, id2 \in Ids :
          /\ cl.recs[id].server = cl.last.arg.sv
          /\ cl.recs[id].killed_by = "disconnect"
          /\ Unheld(cl, id)
          /\ cl.recs[id2].username = cl.recs[id].username
          /\ Held(cl, id2)
    /\ ~cl.raised

Idle(c, id) ==
    /\ Held(c, id)
    /\ ~c.recs[id].killed
    /\ ClArmed(c, id) = {}
    /\ id \notin c.refreshes

\* C39: every non-zombie record held in the registry has a renewal timer
\* armed, or a refresh in flight, or a disconnect of it has been
\* requested: a step leaves a record with neither timer nor refresh only
\* if the record was so before or the step requests its disconnect.
C39_AlwaysMaintained ==
    [][\A id \in 1..Len(cl'.recs) :
          Idle(cl', id)
             => \/ id \in Ids /\ Idle(cl, id)
                \/ /\ cl'.last.id = id
                   /\ \E i \in DOMAIN cl'.last.effects :
                         cl'.last.effects[i] = "disconnect"]_vars

(***************************************************************************)
(* SpecSync: the periodic client-list sync and the supervisors of the      *)
(* management connections.  Time is counted in units of ten seconds; a     *)
(* timer is <<name, remaining>>, the supervisor's timer carrying the name  *)
(* of its concentrator.  A management socket is "none" (_socket is None),  *)
(* "up", or "dead" (the peer has closed it).                               *)
(***************************************************************************)
SyncOthers == <<coreVars, reg, cmd, cl, lis, chan, esc>>
SyncOthersIdle ==
    /\ CoreIdle
    /\ reg = NoReg
    /\ cmd = NoCmd
    /\ cl = NoCl
    /\ lis = NoLis
    /\ chan = NoChan
    /\ esc = NoEsc

\* sync_interval = 60 and the supervisors' timeout = 30, in units of 10 s.
SyncInterval == 6
SupervisorTimeout == 3
\* self._servers.values(): the order of the configuration.
ServerOrder == <<"srv1", "srv2">>

\* TimeoutManager.add_rel_timeout / add_timeout_object.
add_rel_timeout(s, name, delay) ==
    [s EXCEPT !.timers = @ \cup {<<name, delay>>}]

\* OvpnServer.connected.
connected(s, sv) == s.socket[sv] # "none"

\* OvpnServer.connect_to_mgmt on a server that is not connected: connect()
\* fails, or _socket is set and self._loop.add_reader raises, the loop
\* handed over by read_servers being the SocketLoop, which has no
\* add_reader.
connect_to_mgmt(s, sv, outcome) ==
    IF outcome = "refused"
    THEN s
    ELSE [s EXCEPT !.socket[sv] = "up", !.last.raised = TRUE]

\* OvpnServer.close_mgmt: self._sloop is never assigned, so the first
\* statement raises and _socket is not reset.
close_mgmt(s, sv) == [s EXCEPT !.last.raised = TRUE]

\* OvpnServer._send_cmd: BrokenPipeError on a dead socket is caught and
\* close_mgmt called.
OvpnServer_send_cmd(s, sv) ==
    IF s.socket[sv] = "dead"
    THEN close_mgmt([s EXCEPT !.last.lost = @ \cup {sv}], sv)
    ELSE s

\* OvpnServer.poll_client_list; _OvpnListClientsState sends 'status 2'
\* when it is constructed.
poll_client_list(s, sv) ==
    IF ~connected(s, sv)
    THEN s
    ELSE LET t == OvpnServer_send_cmd(s, sv)
         IN IF t.last.raised THEN t
            ELSE [t EXCEPT !.polled = @ \cup {sv}]

\* OvpnClientManager.sync_clients, from the i-th server on.
RECURSIVE sync_clients(_, _)
sync_clients(s, i) ==
    IF i > Len(ServerOrder) \/ s.last.raised
    THEN s
    ELSE sync_clients(poll_client_list(s, ServerOrder[i]), i + 1)

\* OvpnClientManager._on_sync_clients: sync_clients(), then the next timer.
on_sync_clients(s) ==
    LET t == sync_clients(s, 1)
    IN IF t.last.raised THEN t
       ELSE add_rel_timeout(t, "sync", SyncInterval)

\* OvpnServerSupervisor.handle_timeout.
OvpnServerSupervisor_handle_timeout(s, sv, outcome) ==
    LET t == IF ~connected(s, sv)
             THEN connect_to_mgmt(s, sv, outcome)
             ELSE s
    IN IF t.last.raised THEN t
       ELSE add_rel_timeout(t, sv, SupervisorTimeout)

\* A timer callback begins: the fired timer has left the manager.
begin_syn(s, op, tm) ==
    [s EXCEPT !.timers = @ \ {tm}, !.polled = {},
              !.last = [op |-> op, raised |-> FALSE, lost |-> {}]]

\* main: read_servers returned (no management socket connected, else
\* OvpnServer.__init__ had raised), one supervisor per server, then the
\* client manager with its first sync timer at 0.
InitSync ==
    /\ syn = [NoSyn EXCEPT
                !.timers = {<<"sync", 0>>}
                           \cup {<<sv, SupervisorTimeout>> : sv \in ClServers}]
    /\ SyncOthersIdle

\* The sync timer fires.
SyncTimerFires ==
    /\ <<"sync", 0>> \in syn.timers
    /\ syn' = on_sync_clients(begin_syn(syn, "sync", <<"sync", 0>>))
    /\ UNCHANGED SyncOthers

\* The timer of a supervisor fires.
SupervisorFires ==
    /\ \E sv \in ClServers, outcome \in {"refused", "connected"} :
          /\ <<sv, 0>> \in syn.timers
          /\ syn' = OvpnServerSupervisor_handle_timeout(
                       begin_syn(syn, "supervise", <<sv, 0>>), sv, outcome)
    /\ UNCHANGED SyncOthers

\* The concentrator closes its end of a management connection; no reader
\* is registered for the socket, so no handler runs.
PeerCloses ==
    /\ \E sv \in ClServers :
          /\ syn.socket[sv] = "up"
          /\ syn' = [syn EXCEPT !.socket[sv] = "dead",
                                !.last = [op |-> "peer_closed",
                                          raised |-> FALSE, lost |-> {}]]
    /\ UNCHANGED SyncOthers

\* Ten seconds pass; due timers fire first.
TickSync ==
    /\ syn.timers # {}
    /\ \A tm \in syn.timers : tm[2] > 0
    /\ syn' = [syn EXCEPT !.timers = {<<tm[1], tm[2] - 1>> : tm \in @},
                          !.last = [op |-> "tick", raised |-> FALSE,
                                    lost |-> {}]]
    /\ UNCHANGED SyncOthers

NextSync ==
    \/ SyncTimerFires
    \/ SupervisorFires
    \/ PeerCloses
    \/ TickSync
SpecSync == InitSync /\ [][NextSync]_vars

\* C29: client-list sync is periodic: after every firing of the sync timer
\* the next sync timer is armed sync_interval later, whatever the
\* connection state of the concentrators and whatever happens while the
\* polls are issued.
C29_SyncRearmed ==
    syn.last.op = "sync" => <<"sync", SyncInterval>> \in syn.timers


\* C31: loss of a management channel is recoverable: after a broken pipe
\* (or EOF) on the channel the concentrator client is disconnected, the
\* supervisor of every concentrator has its timer armed after each of its
\* ticks, so that a disconnected client is reconnected on a later tick.
C31_ChannelRecovers ==
    /\ \A sv \in syn.last.lost : syn.socket[sv] = "none"
    /\ \A sv \in ClServers : \E tm \in syn.timers : tm[1] = sv

(***************************************************************************)
(* SpecListener: the listening command socket.  A peer is its credentials, *)
(* the state of its accepted socket, the commands it has written that are  *)
(* not read yet, and the commands read from it.                            *)
(***************************************************************************)
ListenerOthers == <<coreVars, reg, cmd, cl, syn, chan, esc>>
ListenerOthersIdle ==
    /\ CoreIdle
    /\ reg = NoReg
    /\ cmd = NoCmd
    /\ cl = NoCl
    /\ syn = NoSyn
    /\ chan = NoChan
    /\ esc = NoEsc

\* Peer credentials (SO_PEERCRED) and the configured cmd_socket_uids and
\* cmd_socket_gids.
Uids == {0, 1000}
Gids == {0, 100}

\* Variants of the check, for the sensitivity runs.
cmd_conn_auth_check_both(l, uid, gid) ==
    uid \in l.uids /\ gid \in l.gids

\* main.cmd_conn_auth_check.
cmd_conn_auth_check(l, uid, gid) ==
    IF uid \in l.uids THEN TRUE
    ELSE IF gid \in l.gids THEN TRUE
    ELSE FALSE

\* CommandConnection.__init__ through the factory: the connection joins
\* the socket loop's handlers.
create_vpn_cmd_conn(l, i) == [l EXCEPT !.handlers = @ \cup {i}]

\* CommandConnectionListener.handle_socket: accept() raises OSError, or
\* the peer is checked and its socket closed or handed to the factory.
CommandConnectionListener_handle_socket(l, accepted, uid, gid, written) ==
    IF ~accepted
    THEN [l EXCEPT !.last = [op |-> "accept_failed", peer |-> 0]]
    ELSE LET i == Len(l.peers) + 1
             a == [l EXCEPT !.peers = Append(@, [uid |-> uid, gid |-> gid,
                                                 sock |-> "open",
                                                 written |-> written,
                                                 read |-> 0]),
                            !.last = [op |-> "accept", peer |-> i]]
         IN IF ~cmd_conn_auth_check(a, uid, gid)
            THEN [a EXCEPT !.peers[i].sock = "closed"]
            ELSE create_vpn_cmd_conn(a, i)

\* main: the configured uids and gids; the listener has no peer yet.
InitListener ==
    /\ \E us \in SUBSET Uids, gs \in SUBSET Gids :
          lis = [NoLis EXCEPT !.uids = us, !.gids = gs]
    /\ ListenerOthersIdle

\* The listening socket is readable: a peer has connected, and may have
\* written a command already.
Accept ==
    /\ Len(lis.peers) < MaxPeers
    /\ \E uid \in Uids, gid \in Gids, written \in {0, 1} :
          lis' = CommandConnectionListener_handle_socket(
                    lis, TRUE, uid, gid, written)
    /\ UNCHANGED ListenerOthers

\* accept() fails.
AcceptFails ==
    /\ lis' = CommandConnectionListener_handle_socket(lis, FALSE, 0, 0, 0)
    /\ UNCHANGED ListenerOthers

\* A peer writes a command to its end of the socket.
PeerWrites ==
    /\ \E i \in DOMAIN lis.peers :
          /\ lis.peers[i].written + lis.peers[i].read < MaxMsgs
          /\ lis' = [lis EXCEPT !.peers[i].written = @ + 1,
                                !.last = [op |-> "write", peer |-> i]]
    /\ UNCHANGED ListenerOthers

\* SocketLoop.run: a handler's socket is readable, its handle_socket reads
\* one command.
ReadCommand ==
    /\ \E i \in lis.handlers :
          /\ lis.peers[i].written > 0
          /\ lis' = [lis EXCEPT !.peers[i].written = @ - 1,
                                !.peers[i].read = @ + 1,
                                !.last = [op |-> "read", peer |-> i]]
    /\ UNCHANGED ListenerOthers

NextListener ==
    \/ Accept
    \/ AcceptFails
    \/ PeerWrites
    \/ ReadCommand
SpecListener == InitListener /\ [][NextListener]_vars

\* C30: a new command connection is accepted if and only if the peer's
\* uid is among the allowed uids or its gid among the allowed gids; the
\* socket of a rejected peer is closed, no connection object is created
\* for it, and no command of it is ever read.
C30_AcceptIffAllowed ==
    \A i \in DOMAIN lis.peers :
       LET p == lis.peers[i]
           allowed == p.uid \in lis.uids \/ p.gid \in lis.gids
       IN /\ i \in lis.handlers <=> allowed
          /\ allowed => p.sock = "open"
          /\ ~allowed => (p.sock = "closed" /\ p.read = 0)
C30_Witness ==
    /\ Len(lis.peers) = 2
    /\ lis.handlers = {2}
    /\ lis.peers[1].sock = "closed"
    /\ lis.peers[1].written > 0
    /\ lis.peers[1].uid \notin lis.uids
    /\ lis.peers[1].gid \notin lis.gids
    /\ lis.peers[2].uid \notin lis.uids
    /\ lis.peers[2].gid \in lis.gids
    /\ lis.peers[2].read > 0


(***************************************************************************)
(* SpecChannel: the management channel of one concentrator, OvpnServer     *)
(* with its queue of command states.  handle_socket is modelled as the     *)
(* event loop's call on a readable socket.  A command is known by the      *)
(* number of its issue; a line carries the number of the command the       *)
(* concentrator answered with it.  _socket is "none" (None), "up", or      *)
(* "dead" (set, the peer has closed).                                      *)
(***************************************************************************)
ChannelOthers == <<coreVars, reg, cmd, cl, syn, lis, esc>>
ChannelOthersIdle ==
    /\ CoreIdle
    /\ reg = NoReg
    /\ cmd = NoCmd
    /\ cl = NoCl
    /\ syn = NoSyn
    /\ lis = NoLis
    /\ esc = NoEsc

Line(text, id) == [text |-> text, of |-> id]

\* A timer or command callback begins.
begin_chan(c, op) ==
    [c EXCEPT !.last = [op |-> op, raised |-> FALSE, sent |-> FALSE,
                        pending |-> Len(c.queue)]]

\* OvpnServer.close_mgmt on the channel: raises in its first statement.
OvpnServer_close_mgmt(c) == [c EXCEPT !.last.raised = TRUE]

\* OvpnServer._send_cmd: the text goes to the concentrator, or the pipe
\* is broken.
send_text(c, kind, id) ==
    IF c.socket = "dead"
    THEN OvpnServer_close_mgmt(c)
    ELSE [c EXCEPT !.sent = Append(@, id),
                   !.wire = Append(@, [kind |-> kind, id |-> id]),
                   !.last.sent = TRUE]

\* StateQueue.add of a command state whose constructor sends its text:
\* _OvpnListClientsState(ovpn, clb) or _OvpnDisconnectClientsState.
add_state(c, kind, id) ==
    LET t == send_text(c, kind, id)
    IN IF t.last.raised THEN t
       ELSE [t EXCEPT !.queue = Append(@, [kind |-> kind, id |-> id,
                                           behind |-> Len(c.queue),
                                           clients |-> << >>])]

\* OvpnServer.poll_client_list(clb), the clb known by the number id.
OvpnServer_poll_client_list(c, id) ==
    IF c.socket = "none" THEN c ELSE add_state(c, "list", id)

\* OvpnServer.disconnect_client.
OvpnServer_disconnect_client(c, id) ==
    IF c.socket = "none" THEN c ELSE add_state(c, "kill", id)

\* The callback of a command state is called.
call_done(c, st, res) ==
    [c EXCEPT !.done = Append(@, [id |-> st.id, kind |-> st.kind,
                                  behind |-> st.behind,
                                  clients |-> st.clients, res |-> res])]

\* handle_line of the state st at the head of the queue: the channel after
\* it, and whether the state wants more lines.
handle_line(c, st, line) ==
    CASE st.kind = "list" /\ line.text = "CLIENT_LIST" ->
            [c |-> [c EXCEPT !.queue[1].clients = Append(@, line.of)],
             more |-> TRUE]
      [] st.kind = "list" /\ line.text = "END" ->
            [c |-> call_done(c, st, "list"), more |-> FALSE]
      [] st.kind = "kill" /\ line.text = "SUCCESS" ->
            [c |-> call_done(c, st, "true"), more |-> FALSE]
      [] st.kind = "kill" /\ line.text = "ERROR" ->
            [c |-> call_done(c, st, "false"), more |-> FALSE]
      [] OTHER -> [c |-> c, more |-> TRUE]

\* One line of OvpnServer.handle_socket given to the newest state: a
\* variant for the sensitivity runs.
feed_newest(c, line) ==
    IF c.queue = << >>
    THEN c
    ELSE LET n == Len(c.queue)
             st == c.queue[n]
         IN IF st.kind = "list" /\ line.text = "END"
            THEN [call_done(c, st, "list") EXCEPT
                     !.queue = SubSeq(@, 1, n - 1)]
            ELSE IF st.kind = "list" /\ line.text = "CLIENT_LIST"
            THEN [c EXCEPT !.queue[n].clients = Append(@, line.of)]
            ELSE c

\* One line of OvpnServer.handle_socket: it goes to StateQueue.current,
\* the idle state when nothing is pending; current_done drops the state.
feed(c, line) ==
    IF c.queue = << >>
    THEN c
    ELSE LET r == handle_line(c, Head(c.queue), line)
         IN IF r.more THEN r.c
            ELSE [r.c EXCEPT !.queue = Tail(@)]

\* OvpnServer.handle_socket for the n lines recvlines returns.
RECURSIVE OvpnServer_handle_socket(_, _)
OvpnServer_handle_socket(c, n) ==
    IF n = 0
    THEN c
    ELSE OvpnServer_handle_socket(
            [feed(c, Head(c.lines)) EXCEPT !.lines = Tail(@)], n - 1)

\* OvpnServer.__init__: connect_to_mgmt has not succeeded.
InitChannel ==
    /\ chan = NoChan
    /\ ChannelOthersIdle

\* The supervisor's connect_to_mgmt succeeds: _socket is set and add_reader
\* raises, before the wait-connect state is queued; the concentrator
\* greets.
Connect ==
    /\ chan.socket = "none"
    /\ chan' = [begin_chan(chan, "connect") EXCEPT
                   !.socket = "up", !.last.raised = TRUE,
                   !.lines = <<Line("INFO", 0)>>]
    /\ UNCHANGED ChannelOthers

\* The client manager polls the client list.
Poll ==
    /\ Len(chan.issued) < MaxCmds
    /\ chan' = OvpnServer_poll_client_list(
                  [begin_chan(chan, "poll") EXCEPT
                      !.issued = Append(@, "list")],
                  Len(chan.issued) + 1)
    /\ UNCHANGED ChannelOthers

\* A client record or the manager asks for a disconnect.
Kill ==
    /\ Len(chan.issued) < MaxCmds
    /\ chan' = OvpnServer_disconnect_client(
                  [begin_chan(chan, "kill") EXCEPT
                      !.issued = Append(@, "kill")],
                  Len(chan.issued) + 1)
    /\ UNCHANGED ChannelOthers

\* The concentrator answers the oldest command it has received.
PeerResponds ==
    /\ chan.socket = "up"
    /\ chan.wire # << >>
    /\ LET w == Head(chan.wire) IN
       \E k \in 0..MaxListed, ok \in BOOLEAN :
          /\ (w.kind = "kill") => k = 0
          /\ (w.kind = "list") => ok
          /\ chan' = [chan EXCEPT
                !.wire = Tail(@),
                !.lines = @ \o
                   (IF w.kind = "list"
                    THEN [i \in 1..k |-> Line("CLIENT_LIST", w.id)]
                            \o <<Line("END", w.id)>>
                    ELSE <<Line(IF ok THEN "SUCCESS" ELSE "ERROR", w.id)>>),
                !.last = [op |-> "respond", raised |-> FALSE,
                          sent |-> FALSE, pending |-> Len(chan.queue)]]
    /\ UNCHANGED ChannelOthers

\* The concentrator closes the channel.
ChannelCloses ==
    /\ chan.socket = "up"
    /\ chan' = [chan EXCEPT !.socket = "dead", !.wire = << >>,
                            !.last = [op |-> "close", raised |-> FALSE,
                                      sent |-> FALSE,
                                      pending |-> Len(chan.queue)]]
    /\ UNCHANGED ChannelOthers

\* The socket is readable with lines.
HandleSocket ==
    /\ chan.lines # << >>
    /\ \E n \in 1..Len(chan.lines) :
          chan' = OvpnServer_handle_socket(begin_chan(chan, "lines"), n)
    /\ UNCHANGED ChannelOthers

\* The socket is readable at EOF: recvlines returns None, close_mgmt.
HandleEof ==
    /\ chan.socket = "dead"
    /\ chan.lines = << >>
    /\ chan' = OvpnServer_close_mgmt(begin_chan(chan, "eof"))
    /\ UNCHANGED ChannelOthers

NextChannel ==
    \/ Connect
    \/ Poll
    \/ Kill
    \/ PeerResponds
    \/ ChannelCloses
    \/ HandleSocket
    \/ HandleEof
SpecChannel == InitChannel /\ [][NextChannel]_vars

Pending(id) == \E i \in DOMAIN chan.queue : chan.queue[i].id = id
Calls(id) == {i \in DOMAIN chan.done : chan.done[i].id = id}

\* C32: every call of poll_client_list(clb) leads to exactly one call of
\* clb: as long as the listing is pending clb has not been called, and a
\* poll that is not pending has called clb once, be it with the list or,
\* on an error such as a missing management connection, with None.
C32_PollCallsBack ==
    \A id \in DOMAIN chan.issued :
       chan.issued[id] = "list" =>
          IF Pending(id) THEN Calls(id) = {}
          ELSE Cardinality(Calls(id)) = 1


Increasing(seq) == \A i, j \in DOMAIN seq : i < j => seq[i] < seq[j]

\* C40 as stated: commands on a channel are processed one at a time: the
\* text of a command is sent only when no earlier command still awaits its
\* response.
C40_SentWhenIdle ==
    (chan.last.op \in {"poll", "kill"} /\ chan.last.sent)
       => chan.last.pending = 0

\* C40 as the code has it: the text of a command is sent when the command
\* is issued, in the order of issue, also while earlier commands await
\* their responses; every received line is given to the oldest pending
\* command, so the callbacks run in the order of issue, each at most once,
\* and the list handed to a poll's callback holds exactly the lines the
\* concentrator sent for that poll.
C40_OrderedCompletion ==
    /\ Increasing(chan.sent)
    /\ Increasing([i \in DOMAIN chan.queue |-> chan.queue[i].id])
    /\ Increasing([i \in DOMAIN chan.done |-> chan.done[i].id])
    /\ \A i \in DOMAIN chan.done :
          /\ chan.issued[chan.done[i].id] = chan.done[i].kind
          /\ ~Pending(chan.done[i].id)
          /\ \A j \in DOMAIN chan.queue : chan.done[i].id < chan.queue[j].id
          /\ \A k \in DOMAIN chan.done[i].clients :
                chan.done[i].clients[k] = chan.done[i].id
    /\ \A j \in DOMAIN chan.queue :
          \A k \in DOMAIN chan.queue[j].clients :
             chan.queue[j].clients[k] = chan.queue[j].id
C40_Witness ==
    /\ Len(chan.done) = 2
    /\ chan.done[1].kind = "list"
    /\ chan.done[2].kind = "list"
    /\ chan.done[2].behind = 1
    /\ chan.done[1].clients # << >>
    /\ chan.done[2].clients # << >>
    /\ chan.last.op = "lines"


(***************************************************************************)
(* Further properties of the requestor (Spec)                              *)
(***************************************************************************)
ArmedIn(tms, t) == {tm \in tms : tm[1] = t}

\* C33: a bad packet never kills the requestor's socket: whatever a handler
\* raises while a datagram is handled, the exception does not leave
\* handle_socket, the requestor stays among the socket loop's handlers, and
\* the other transactions are untouched, so that later datagrams are still
\* dispatched to them.
C33_SocketSurvives ==
    /\ [](ev.registered)
    /\ [][ev'.raised =>
            \E h \in Mapped(requests) :
               \A t \in DOMAIN txn \ {h} :
                  /\ txn'[t] = txn[t]
                  /\ hist'[t] = hist[t]
                  /\ ArmedIn(timers', t) = ArmedIn(timers, t)
                  /\ t \in Mapped(requests) => t \in Mapped(requests')
        ]_vars
C33_Witness ==
    /\ ev.caught
    /\ ~ev.raised
    /\ ev.registered
    /\ ev.op = "accepted"
    /\ \E t \in DOMAIN hist : hist[t].succ = 1

\* The step in which transaction t leaves AR_DISCOVER for AR_REQUEST: the
\* acceptance of an OFFER.
AcceptsOffer(t) ==
    /\ txn[t].state = AR_DISCOVER
    /\ txn'[t].state = AR_REQUEST

\* C35: when a transaction in AR_DISCOVER accepts an OFFER, the pending
\* timer is cancelled, the state becomes AR_REQUEST, a REQUEST with the
\* offer's server_identifier and with request_ip_address = the offered
\* yiaddr is sent, the retry counter is 0, the current timeout is the
\* initial timeout, and exactly one new timer is armed, which is the only
\* timer of the transaction; no transaction ever accepts a second OFFER.
C35_OfferAccepted ==
    /\ [](\A t \in DOMAIN hist : hist[t].offers <= 1)
    /\ [][\A t \in DOMAIN txn :
            AcceptsOffer(t) =>
                /\ ev'.offer # Absent
                /\ ArmedIn(timers, t) \cap timers' = {}
                /\ Cardinality(ArmedIn(timers', t) \ ArmedIn(timers, t)) = 1
                /\ Cardinality(ArmedIn(timers', t)) = 1
                /\ txn'[t].timeout_obj # Absent
                /\ ArmedIn(timers', t) = {<<t, txn'[t].timeout_obj[1]>>}
                /\ txn'[t].packet_retries = 0
                /\ txn'[t].timeout = txn[t].initial_timeout
                /\ txn'[t].timeout = txn'[t].initial_timeout
                /\ Len(txn'[t].log) = 1
                /\ txn'[t].log[1].timeout = txn[t].initial_timeout
                /\ txn'[t].log[1].packet =
                      [type |-> "REQUEST", xid |-> txn[t].xid,
                       server_identifier |-> ev'.offer[1][1],
                       request_ip_address |-> Some(ev'.offer[1][2])]
                /\ txn'[t].last_packet = Some(txn'[t].log[1].packet)
                /\ hist'[t].offers = 1
                /\ hist[t].offers = 0]_vars

\* An initial transaction has just accepted an OFFER that names server B:
\* its REQUEST carries that server_identifier and one timer is armed.
C35_Witness ==
    /\ ev.op = "accepted"
    /\ ev.offer = Some(<<Some(ServerB), OfferedIp>>)
    /\ \E t \in DOMAIN txn :
          /\ txn[t].state = AR_REQUEST
          /\ txn[t].kind = "initial"
          /\ hist[t].offers = 1
          /\ txn[t].packet_retries = 0
          /\ txn[t].log # << >>
          /\ txn[t].log[1].packet.server_identifier = Some(ServerB)
          /\ Cardinality(ArmedIn(timers, t)) = 1

\* The step in which transaction t accepts a NACK: of the handlers that
\* handle_socket calls, only handle_dhcp_nack calls the failure handler.
AcceptsNack(t) ==
    /\ ev'.op = "accepted"
    /\ hist'[t].fail = hist[t].fail + 1

\* C36: when a transaction in AR_REQUEST accepts a NACK, its timer is
\* cancelled, it is removed from the xid map and the failure callback is
\* called once; afterwards the transaction has no timer, is not in the
\* map and sends no packet again, and its failure callback is not called
\* a second time.
C36_NackTerminates ==
    /\ [][\A t \in DOMAIN txn :
            AcceptsNack(t) =>
                /\ txn[t].state = AR_REQUEST
                /\ txn[t].timeout_obj # Absent
                /\ <<t, txn[t].timeout_obj[1]>> \notin timers'
                /\ ArmedIn(timers', t) = {}
                /\ t \in Mapped(requests)
                /\ t \notin Mapped(requests')
                /\ txn[t].xid \notin DOMAIN requests'
                /\ hist[t].fail = 0
                /\ hist'[t].fail = 1
                /\ hist'[t].succ = 0
                /\ txn'[t].log = << >>]_vars
    /\ [][\A t \in DOMAIN txn :
            hist[t].fail > 0 =>
                /\ hist'[t].fail = hist[t].fail
                /\ hist'[t].succ = hist[t].succ
                /\ ArmedIn(timers', t) = {}
                /\ t \notin Mapped(requests')
                /\ txn'[t] = Destroyed]_vars

\* The only transaction went from its OFFER to a NACK, which was the last
\* event: the failure callback ran once and nothing refers to the
\* transaction.
C36_Witness ==
    /\ Len(txn) = 1
    /\ ev.op = "accepted"
    /\ ev.offer = Absent
    /\ ~ev.raised
    /\ hist[1].offers = 1
    /\ hist[1].fail = 1
    /\ hist[1].succ = 0
    /\ ~hist[1].late
    /\ timers = {}
    /\ requests = << >>
    /\ txn[1] = Destroyed


(***************************************************************************)
(* SpecEscape: config_escape applied to values.  A value is a sequence of  *)
(* characters: a letter, the space, the tab, the backslash, the double     *)
(* quote.                                                                  *)
(***************************************************************************)
EscapeOthers == <<coreVars, reg, cmd, cl, syn, lis, chan>>
EscapeOthersIdle ==
    /\ CoreIdle
    /\ reg = NoReg
    /\ cmd = NoCmd
    /\ cl = NoCl
    /\ syn = NoSyn
    /\ lis = NoLis
    /\ chan = NoChan

Chars == {"a", " ", "tab", "\\", "dq"}
isspace(ch) == ch \in {" ", "tab"}
Values == UNION {[1..n -> Chars] : n \in 0..MaxValue}

\* str.replace(old, new) for a one-character old.
RECURSIVE replace(_, _, _)
replace(str, old, new) ==
    IF str = << >> THEN << >>
    ELSE (IF Head(str) = old THEN new ELSE <<Head(str)>>)
            \o replace(Tail(str), old, new)

\* A config_escape that escapes the quotes before it doubles the
\* backslashes, for the sensitivity runs.
config_escape_quotes_first(option) ==
    LET quoted == replace(option, "dq", <<"\\", "dq">>)
        doubled == replace(quoted, "\\", <<"\\", "\\">>)
    IN IF \E i \in DOMAIN option : isspace(option[i])
       THEN <<"dq">> \o doubled \o <<"dq">>
       ELSE replace(option, "\\", <<"\\", "\\">>)

\* config_escape.
config_escape(option) ==
    LET doubled == replace(option, "\\", <<"\\", "\\">>)
    IN IF \E i \in DOMAIN doubled : isspace(doubled[i])
       THEN <<"dq">> \o replace(doubled, "dq", <<"\\", "dq">>) \o <<"dq">>
       ELSE doubled

InitEscape ==
    /\ \E v \in Values : esc = [v |-> v, out |-> Absent]
    /\ EscapeOthersIdle

\* make_config_line escapes the value.
Escape ==
    /\ esc.out = Absent
    /\ esc' = [esc EXCEPT !.out = Some(config_escape(esc.v))]
    /\ UNCHANGED EscapeOthers

NextEscape == Escape
SpecEscape == InitEscape /\ [][NextEscape]_vars

\* What the claim says of one character of the value.
Escaped(ch, wrapped) ==
    IF ch = "\\" THEN <<"\\", "\\">>
    ELSE IF ch = "dq" /\ wrapped THEN <<"\\", "dq">>
    ELSE <<ch>>
RECURSIVE EscapedAll(_, _)
EscapedAll(v, wrapped) ==
    IF v = << >> THEN << >>
    ELSE Escaped(Head(v), wrapped) \o EscapedAll(Tail(v), wrapped)

\* C34: config_escape(v) doubles every backslash of v; the result is
\* wrapped in double quotes if and only if v contains a whitespace
\* character; a double quote of v is backslash-escaped exactly when the
\* value is wrapped; a value without whitespace and without backslash is
\* returned unchanged.
C34_ConfigEscape ==
    esc.out # Absent =>
       LET v == esc.v
           space == \E i \in DOMAIN v : isspace(v[i])
       IN /\ esc.out[1] = IF space
                          THEN <<"dq">> \o EscapedAll(v, TRUE) \o <<"dq">>
                          ELSE EscapedAll(v, FALSE)
          /\ (~space /\ \A i \in DOMAIN v : v[i] # "\\") => esc.out[1] = v
C34_Witness ==
    /\ esc.v = <<" ", "\\", "dq">>
    /\ esc.out = <<(<<"dq", " ", "\\", "\\", "\\", "dq", "dq">>)>>

==============================================================================
